---- MODULE Spec2Model ----
(***************************************************************************)
(* A model of spackle's hook orchestration: src/src/hook.rs                *)
(* (run_hooks_stream, run_hooks, Hook::is_enabled, evaluate_conditional),  *)
(* src/src/needs.rs (is_satisfied) and src/src/slot.rs (Slot::is_enabled). *)
(*                                                                         *)
(* Strings that the code parses (data values, rendered templates) are      *)
(* sequences of one-character strings, so that to_lowercase, trim and      *)
(* parse::<bool> are computed as the code computes them.  Keys (map keys,  *)
(* hook and slot keys) are only ever compared, and are TLA+ strings.       *)
(***************************************************************************)
EXTENDS Naturals, Sequences, FiniteSets, TLC

----------------------------------------------------------------------------
(* Bounds of the model *)

\* longest hook list of a manifest
MaxHooks == 3
\* how many attributes of a manifest / entries of the data map differ from
\* the plain manifest (hooks without optional, if, needs; empty data)
MaxFeatures == 2

----------------------------------------------------------------------------
(* Strings *)

sEmpty == <<>>
sZero == <<"0">>
sTrue == <<"t", "r", "u", "e">>
sFalse == <<"f", "a", "l", "s", "e">>
sFaLSE == <<"F", "a", "L", "S", "E">>
sPadTrue == <<" ", "t", "r", "u", "e", " ">>
sLorem == <<"l", "o", "r", "e", "m">>
sOn == <<"o", "n">>
sTrueCap == <<"T", "r", "u", "e">>
sOne == <<"1">>
sLoremIpsum == <<"l", "o", "r", "e", "m", " ", "i", "p", "s", "u", "m">>
sZeroZero == <<"0", "0">>
sNo == <<"n", "o">>
sZeroDotZero == <<"0", ".", "0">>

UpperOf == [c \in {"f", "a", "l", "s", "e", "t", "r", "u", "o", "n", "m"} |->
              CASE c = "f" -> "F" [] c = "a" -> "A" [] c = "l" -> "L"
                [] c = "s" -> "S" [] c = "e" -> "E" [] c = "t" -> "T"
                [] c = "r" -> "R" [] c = "u" -> "U" [] c = "o" -> "O"
                [] c = "n" -> "N" [] c = "m" -> "M"]

\* char::to_lowercase on the alphabet of the model
LowerChar(c) ==
    IF \E l \in DOMAIN UpperOf : UpperOf[l] = c
    THEN CHOOSE l \in DOMAIN UpperOf : UpperOf[l] = c
    ELSE c

\* str::to_lowercase
to_lowercase(s) == [i \in 1..Len(s) |-> LowerChar(s[i])]

IsSpace(c) == c = " "

\* str::trim: drops leading and trailing whitespace
RECURSIVE trim_start(_)
trim_start(s) ==
    IF s # <<>> /\ IsSpace(Head(s)) THEN trim_start(Tail(s)) ELSE s

RECURSIVE trim_end(_)
trim_end(s) ==
    IF s # <<>> /\ IsSpace(s[Len(s)]) THEN trim_end(SubSeq(s, 1, Len(s) - 1)) ELSE s

\* str::trim_start in place of str::trim
trim_leading_only(s) == trim_start(s)

trim(s) == trim_end(trim_start(s))

\* str::parse::<bool>: exactly "true" or "false", anything else is an error
parse_bool(s) ==
    IF s = sTrue THEN [ok |-> TRUE, val |-> TRUE]
    ELSE IF s = sFalse THEN [ok |-> TRUE, val |-> FALSE]
    ELSE [ok |-> FALSE, val |-> FALSE]

----------------------------------------------------------------------------
(* Templates: the text of an `if` or of a command token is either literal  *)
(* text or one placeholder {{ key }}.                                      *)

Lit(s) == [var |-> FALSE, key |-> "", text |-> s]
Var(k) == [var |-> TRUE, key |-> k, text |-> <<>>]

\* Tera::one_off(template, context, false): literal text renders to itself,
\* a placeholder to the context's value, an undefined key is an error
one_off(t, context) ==
    IF ~t.var THEN [ok |-> TRUE, val |-> t.text]
    ELSE IF t.key \in DOMAIN context THEN [ok |-> TRUE, val |-> context[t.key]]
    ELSE [ok |-> FALSE, val |-> <<>>]

----------------------------------------------------------------------------
(* Hooks and slots *)

\* Option<HookConfigOptional>
NoOpt == [some |-> FALSE, default |-> FALSE]
SomeOpt(d) == [some |-> TRUE, default |-> d]

\* Option<String> of Hook.if
NoIf == [some |-> FALSE, t |-> Lit(<<>>)]
SomeIf(t) == [some |-> TRUE, t |-> t]

HookKeys == <<"a", "b", "c", "d", "e">>
SlotKeys == <<"s", "t">>
\* a key that names neither a slot nor a hook
UnknownKey == "zz"
\* a data key that is no slot and no hook, used by templates
FieldKey == "x"

\* format!("hook_ran_{}", hook)
hook_ran(k) == "hook_ran_" \o k

\* HashMap::get
get(data, k) == IF k \in DOMAIN data THEN [some |-> TRUE, val |-> data[k]]
                ELSE [some |-> FALSE, val |-> <<>>]

\* HashMap::insert
insert(data, k, v) == [x \in DOMAIN data \cup {k} |-> IF x = k THEN v ELSE data[x]]

\* Hook::is_enabled that looks at `optional.default` only
Hook_is_enabled_ignoring_override(h, data) ==
    IF h.optional.some THEN h.optional.default ELSE TRUE

\* Hook::is_enabled with unwrap_or(true) in place of unwrap_or(optional.default)
Hook_is_enabled_default_on(h, data) ==
    IF h.optional.some
    THEN IF get(data, h.key).some
         THEN LET p == parse_bool(get(data, h.key).val)
              IN  IF p.ok THEN p.val ELSE FALSE
         ELSE TRUE
    ELSE TRUE

\* Hook::is_enabled with an override that is not a boolean falling back to
\* optional.default
Hook_is_enabled_default_on_parse_error(h, data) ==
    IF h.optional.some
    THEN IF get(data, h.key).some
         THEN LET p == parse_bool(get(data, h.key).val)
              IN  IF p.ok THEN p.val ELSE h.optional.default
         ELSE h.optional.default
    ELSE TRUE

\* Hook::is_enabled (hook.rs:80-88)
Hook_is_enabled(h, data) ==
    IF h.optional.some
    THEN IF get(data, h.key).some
         THEN LET p == parse_bool(get(data, h.key).val)
              IN  IF p.ok THEN p.val ELSE FALSE
         ELSE h.optional.default
    ELSE TRUE

\* Slot::is_enabled comparing with "false" without to_lowercase
Slot_is_enabled_case_sensitive(s, data) ==
    LET value == IF get(data, s.key).some THEN get(data, s.key).val ELSE sEmpty
    IN  value # sEmpty /\ value # sZero /\ value # sFalse

\* Slot::is_enabled that takes a blank value for an empty one
Slot_is_enabled_blank_is_empty(s, data) ==
    LET value == IF get(data, s.key).some THEN get(data, s.key).val ELSE sEmpty
    IN  trim(value) # sEmpty /\ value # sZero /\ to_lowercase(value) # sFalse

\* Slot::is_enabled (slot.rs:64-69)
Slot_is_enabled(s, data) ==
    LET value == IF get(data, s.key).some THEN get(data, s.key).val ELSE sEmpty
    IN  value # sEmpty /\ value # sZero /\ to_lowercase(value) # sFalse

\* &dyn Needy: a slot or a hook behind the common trait
AsNeedy(kind, n) == [kind |-> kind, key |-> n.key, needs |-> n.needs, optional |->
                        IF kind = "hook" THEN n.optional ELSE NoOpt]

\* Needy::is_enabled, dispatched on the implementor
Needy_is_enabled(item, data) ==
    IF item.kind = "slot" THEN Slot_is_enabled(item, data)
    ELSE Hook_is_enabled(item, data)

\* items.iter().find(|h| h.key() == *key): the first item with the key
find(items, key) ==
    LET hits == {i \in 1..Len(items) : items[i].key = key}
    IN  IF hits = {} THEN [some |-> FALSE, i |-> 0]
        ELSE [some |-> TRUE, i |-> CHOOSE i \in hits : \A j \in hits : i <= j]

\* needs::is_satisfied that lets a key naming no item pass
RECURSIVE is_satisfied_unknown_passes(_, _, _)
is_satisfied_unknown_passes(needs, items, data) ==
    \A n \in 1..Len(needs) :
        LET f == find(items, needs[n])
        IN  IF f.some
            THEN LET enabled == Needy_is_enabled(items[f.i], data)
                     satisfied == is_satisfied_unknown_passes(items[f.i].needs, items, data)
                 IN  enabled /\ satisfied
            ELSE TRUE

\* needs::is_satisfied that asks the needed item only whether it is enabled
is_satisfied_not_transitive(needs, items, data) ==
    \A n \in 1..Len(needs) :
        LET f == find(items, needs[n])
        IN  IF f.some THEN Needy_is_enabled(items[f.i], data) ELSE FALSE

\* needs::is_satisfied (Slot::is_satisfied and Hook::is_satisfied both call it
\* with their own needs)
RECURSIVE is_satisfied(_, _, _)
is_satisfied(needs, items, data) ==
    \A n \in 1..Len(needs) :
        LET f == find(items, needs[n])
        IN  IF f.some
            THEN LET enabled == Needy_is_enabled(items[f.i], data)
                     satisfied == is_satisfied(items[f.i].needs, items, data)
                 IN  enabled /\ satisfied
            ELSE FALSE

\* a call of needs::is_satisfied: whether it returns and, if so, what
Returned_with(val) == [returns |-> TRUE, val |-> val]
Never_returns == [returns |-> FALSE, val |-> FALSE]

\* needs::is_satisfied that asks a needed item for its needs only when the
\* item is enabled
RECURSIVE is_satisfied_call_lazy(_, _, _, _)
is_satisfied_call_lazy(needs, items, data, stack) ==
    IF needs = <<>> THEN Returned_with(TRUE)
    ELSE LET f == find(items, Head(needs)) IN
         IF ~f.some THEN Returned_with(FALSE)
         ELSE LET item == items[f.i]
                  enabled == Needy_is_enabled(item, data)
                  satisfied == IF item.key \in stack THEN Never_returns
                               ELSE is_satisfied_call_lazy(item.needs, items, data,
                                                           stack \cup {item.key})
              IN  IF ~enabled THEN Returned_with(FALSE)
                  ELSE IF ~satisfied.returns THEN Never_returns
                  ELSE IF satisfied.val
                  THEN is_satisfied_call_lazy(Tail(needs), items, data, stack)
                  ELSE Returned_with(FALSE)

\* needs::is_satisfied (needs.rs:14-37) as a call that may not return.
\* `stack` holds the keys of the items whose is_satisfied is being
\* evaluated: the function has no state, so a call for an item that is on
\* the stack repeats the call above it and the recursion has no end.  For
\* every need the item's is_enabled and is_satisfied are both evaluated
\* (needs.rs:27-28) before they are combined; Iterator::all stops at the
\* first need that is false.
RECURSIVE is_satisfied_call(_, _, _, _)
is_satisfied_call(needs, items, data, stack) ==
    IF needs = <<>> THEN Returned_with(TRUE)
    ELSE LET f == find(items, Head(needs)) IN
         IF ~f.some THEN Returned_with(FALSE)
         ELSE LET item == items[f.i]
                  enabled == Needy_is_enabled(item, data)
                  satisfied == IF item.key \in stack THEN Never_returns
                               ELSE is_satisfied_call(item.needs, items, data,
                                                      stack \cup {item.key})
              IN  IF ~satisfied.returns THEN Never_returns
                  ELSE IF enabled /\ satisfied.val
                  THEN is_satisfied_call(Tail(needs), items, data, stack)
                  ELSE Returned_with(FALSE)

----------------------------------------------------------------------------
(* The manifests and data maps the model runs: the plain manifest of n     *)
(* hooks (no optional, no if, no needs, command ["true"]) and two slots,   *)
(* with empty data, changed in at most MaxFeatures places.                 *)

PlainHook(i) == [key |-> HookKeys[i], command |-> <<Lit(sTrue)>>, if |-> NoIf,
                 optional |-> NoOpt, needs |-> <<>>]

PlainSlot(i) == [key |-> SlotKeys[i], needs |-> <<>>]

\* Option<User> of run_hooks_stream (hook.rs:238).  A User is what the
\* system knows of it: the programs it does not let the caller build a
\* command for as that user
NoUser == [some |-> FALSE, denied |-> {}]
SomeUser(denied) == [some |-> TRUE, denied |-> denied]

PlainConfig(n) == [hooks |-> [i \in 1..n |-> PlainHook(i)],
                   slots |-> [i \in 1..Len(SlotKeys) |-> PlainSlot(i)],
                   data |-> <<>>,
                   run_as_user |-> NoUser]

\* one change to a manifest or to the data: of hook i (or slot i), to `val`
\* or naming `key`
Change(dim, i, key, val) == [dim |-> dim, i |-> i, key |-> key, val |-> val]

OptChoices == <<SomeOpt(TRUE), SomeOpt(FALSE)>>

IfChoices == <<SomeIf(Lit(sFalse)), SomeIf(Var(hook_ran(HookKeys[1]))),
               SomeIf(Var(hook_ran(HookKeys[2]))), SomeIf(Var(FieldKey))>>

CommandChoices == <<<<Lit(sFalse)>>, <<Var(FieldKey)>>>>

\* the keys a hook's needs may name: the hooks, a slot, an unknown key
NeedChoices(n) == SubSeq(HookKeys, 1, n) \o <<SlotKeys[1], UnknownKey>>

\* the values the data may hold for a hook's key, for the two slots and for
\* the template field
OverrideChoices == <<sTrue, sFalse, sOn>>
SlotValueChoices == <<sEmpty, sZero, sFaLSE, sOn>>
FieldChoices == <<sPadTrue, sFalse, sLorem>>

\* the users a run may be asked to impersonate: one the system lets the
\* caller run every program as, and one it lets run none but "false"
UserChoices == <<SomeUser({}), SomeUser({sTrue, sPadTrue, sLorem})>>

HookChanges(i, n) ==
    [j \in 1..Len(OptChoices) |-> Change("optional", i, "", OptChoices[j])]
    \o [j \in 1..Len(IfChoices) |-> Change("if", i, "", IfChoices[j])]
    \o [j \in 1..Len(CommandChoices) |-> Change("command", i, "", CommandChoices[j])]
    \o [j \in 1..Len(NeedChoices(n)) |-> Change("needs", i, NeedChoices(n)[j], <<>>)]

RECURSIVE HooksChanges(_, _)
HooksChanges(i, n) ==
    IF i > n THEN <<>>
    ELSE HookChanges(i, n)
         \o [j \in 1..Len(OverrideChoices) |-> Change("data", 0, HookKeys[i], OverrideChoices[j])]
         \o HooksChanges(i + 1, n)

\* every change the model makes to the plain manifest of n hooks, in a fixed order
Changes(n) ==
    HooksChanges(1, n)
    \o <<Change("slot_needs", 1, SlotKeys[2], <<>>),
         Change("slot_needs", 1, HookKeys[1], <<>>)>>
    \o [j \in 1..Len(SlotValueChoices) |-> Change("data", 0, SlotKeys[1], SlotValueChoices[j])]
    \o <<Change("data", 0, SlotKeys[2], sOn)>>
    \o [j \in 1..Len(FieldChoices) |-> Change("data", 0, FieldKey, FieldChoices[j])]
    \o [j \in 1..Len(UserChoices) |-> Change("user", 0, "", UserChoices[j])]

\* the keys whose data entry the code may read for the manifest of c: the key
\* of an optional hook and of the first hook (Hook::is_enabled), a needed slot
\* (Slot::is_enabled), the field of an `if` or of a command token (Tera)
KeysRead(c) ==
    {c.hooks[i].key : i \in {j \in 1..Len(c.hooks) : j = 1 \/ c.hooks[j].optional.some}}
    \cup UNION {{c.hooks[i].needs[j] : j \in 1..Len(c.hooks[i].needs)} : i \in 1..Len(c.hooks)}
    \cup UNION {{c.slots[i].needs[j] : j \in 1..Len(c.slots[i].needs)} : i \in 1..Len(c.slots)}
    \cup {c.hooks[i].if.t.key : i \in {j \in 1..Len(c.hooks) : c.hooks[j].if.some}}
    \cup UNION {{c.hooks[i].command[j].key : j \in 1..Len(c.hooks[i].command)} :
                    i \in 1..Len(c.hooks)}

\* an attribute is changed once; a data key holds one value, and the data
\* holds entries for the keys that are read
Applicable(c, ch) ==
    CASE ch.dim = "optional" -> ~c.hooks[ch.i].optional.some
      [] ch.dim = "if" -> ~c.hooks[ch.i].if.some
      [] ch.dim = "command" -> c.hooks[ch.i].command = <<Lit(sTrue)>>
      [] ch.dim = "needs" -> TRUE
      [] ch.dim = "slot_needs" -> TRUE
      [] ch.dim = "data" -> ch.key \notin DOMAIN c.data /\ ch.key \in KeysRead(c)
      [] ch.dim = "user" -> ~c.run_as_user.some

Apply(c, ch) ==
    CASE ch.dim = "optional" -> [c EXCEPT !.hooks[ch.i].optional = ch.val]
      [] ch.dim = "if" -> [c EXCEPT !.hooks[ch.i].if = ch.val]
      [] ch.dim = "command" -> [c EXCEPT !.hooks[ch.i].command = ch.val]
      [] ch.dim = "needs" -> [c EXCEPT !.hooks[ch.i].needs = Append(@, ch.key)]
      [] ch.dim = "slot_needs" -> [c EXCEPT !.slots[ch.i].needs = Append(@, ch.key)]
      [] ch.dim = "data" -> [c EXCEPT !.data = insert(@, ch.key, ch.val)]
      [] ch.dim = "user" -> [c EXCEPT !.run_as_user = ch.val]

\* the items without items.extend(hooks): the slots only
Items_slots_only(hooks, slots) ==
    [i \in 1..Len(slots) |-> AsNeedy("slot", slots[i])]

\* the items of run_hooks_stream: the slots, then the hooks
Items(hooks, slots) ==
    [i \in 1..Len(slots) |-> AsNeedy("slot", slots[i])]
    \o [i \in 1..Len(hooks) |-> AsNeedy("hook", hooks[i])]

\* the keys a set of keys leads to through the needs of the items they name
NeededBy(keys, items) ==
    UNION {{items[i].needs[j] : j \in 1..Len(items[i].needs)} :
                i \in {j \in 1..Len(items) : items[j].key \in keys}}

\* the keys reachable from a set of keys in at most d steps through known items
RECURSIVE NeedsWithin(_, _, _)
NeedsWithin(keys, items, d) ==
    LET more == keys \cup NeededBy(keys, items)
    IN  IF d = 0 \/ more = keys THEN keys ELSE NeedsWithin(more, items, d - 1)

\* no item needs itself, directly or through others: is_satisfied does not
\* return on a cycle (needs.rs:10)
Acyclic(c) ==
    LET items == Items(c.hooks, c.slots) IN
    \A i \in 1..Len(items) :
        items[i].key \notin
            NeedsWithin({items[i].needs[j] : j \in 1..Len(items[i].needs)}, items, Len(items))

\* the classification of run_hooks_stream returns: is_satisfied is asked
\* only of the enabled hooks (hook.rs:253) and goes through every item their
\* needs lead to, enabled or not (needs.rs:27-28), so none of these items
\* needs itself; a hook that is not enabled may
Terminates(c) ==
    LET items == Items(c.hooks, c.slots)
        reach(needs) == NeedsWithin({needs[j] : j \in 1..Len(needs)}, items, Len(items))
    IN  \A h \in 1..Len(c.hooks) :
            (c.hooks[h].needs # <<>> /\ Hook_is_enabled(c.hooks[h], c.data)) =>
                LET led == reach(c.hooks[h].needs)
                IN  \A i \in 1..Len(items) :
                        (items[i].needs # <<>> /\ items[i].key \in led)
                            => items[i].key \notin reach(items[i].needs)

----------------------------------------------------------------------------
(* run_hooks_stream and run_hooks *)

VARIABLES
    hooks,          \* the hook list of the manifest, in declaration order
    slots,          \* the slot list of the manifest
    run_as_user,    \* the user the caller wants the commands run as, if any
    data,           \* the caller's data map
    pc,             \* where the run is: "call", "err", "skip", "skip_done",
                    \* "cmd", "guard", "await", "closed"
    skipped_hooks,  \* run_hooks_stream: the hooks skipped up front, with reasons
    commands,       \* run_hooks_stream: the hooks to run, commands rendered
    si,             \* the index the first loop of the stream stands at
    ci,             \* the index the second loop of the stream stands at
    ran_hooks,      \* the keys of the hooks that completed
    events,         \* every HookStreamResult the stream has yielded
    hook_results,   \* run_hooks: the HookResults collected from the stream
    ret,            \* what run_hooks returned ("none" while it runs)
    running,        \* the keys of the hooks whose process is running
    spawned,        \* the keys of the hooks whose command was handed to the
                    \* operating system (output() was called), in order
    project,        \* Project: config.name and the file stem of its path
    out_dir,        \* the output directory: its file name and what is on disk
    slot_data,      \* the data map the caller hands to a method of Project
    history,        \* the calls of Project's methods that have returned
    cli,            \* where run_multi of the CLI stands ("none": no CLI)
    fn_in,          \* the input a function is applied to on its own
    fn_out          \* and its result

\* the state of lib.rs and of the CLI, and of a function applied on its own
others == <<project, out_dir, slot_data, history, cli, fn_in, fn_out>>

vars == <<hooks, slots, run_as_user, data, pc, skipped_hooks, commands, si, ci, ran_hooks,
          events, hook_results, ret, running, spawned, others>>

\* HookStreamResult: HookStarted(key), or HookDone with the kind of the
\* HookResult and, for Completed and CommandExited, the fields of the variant
HookDoneOutput(key, kind, detail, exit_code, stdout, stderr) ==
    [type |-> "HookDone", key |-> key, kind |-> kind, detail |-> detail,
     exit_code |-> exit_code, stdout |-> stdout, stderr |-> stderr]
HookDone(key, kind, detail) == HookDoneOutput(key, kind, detail, 0, <<>>, <<>>)
HookStarted(key) == [HookDone(key, "", "") EXCEPT !.type = "HookStarted"]

\* the run starts from the manifest and data c, or from one that is up to f
\* further changes away, the changes taken in the order of chs after position r
RECURSIVE StartsFrom(_, _, _, _)
StartsFrom(c, r, f, chs) ==
    \/ /\ Terminates(c)
       /\ hooks = c.hooks
       /\ slots = c.slots
       /\ run_as_user = c.run_as_user
       /\ data = c.data
    \/ /\ f > 0
       /\ \E j \in (r + 1)..Len(chs) :
            /\ Applicable(c, chs[j])
            /\ StartsFrom(Apply(c, chs[j]), j, f - 1, chs)

\* a run_hooks call that has not started
NotStarted ==
    /\ pc = "call"
    /\ skipped_hooks = <<>>
    /\ commands = <<>>
    /\ si = 1
    /\ ci = 1
    /\ ran_hooks = <<>>
    /\ events = <<>>
    /\ hook_results = <<>>
    /\ ret = [kind |-> "none", key |-> ""]
    /\ running = {}
    /\ spawned = <<>>

\* hook::run_hooks called directly, as the tests of hook.rs do, in a
\* directory that exists ("."): no Project, no CLI
NoProject ==
    /\ project = [name |-> [some |-> FALSE, val |-> <<>>],
                  path |-> [ok |-> FALSE, stem |-> <<>>], templates |-> <<>>]
    /\ out_dir = [raw |-> [some |-> FALSE, val |-> <<>>], real |-> <<>>,
                  exists |-> TRUE, files |-> {}]
    /\ slot_data = <<>>
    /\ history = <<>>
    /\ cli = "none"

\* no function is applied on its own
NoFn ==
    /\ fn_in = [fn |-> "none", if |-> NoIf, type |-> "", context |-> <<>>]
    /\ fn_out = [done |-> FALSE, ok |-> FALSE, val |-> FALSE, err |-> ""]

Init ==
    /\ \E n \in 0..MaxHooks : StartsFrom(PlainConfig(n), 0, MaxFeatures, Changes(n))
    /\ NotStarted
    /\ NoProject
    /\ NoFn

\* skipped_hooks without the branch of the enabled, unsatisfied hooks
Skipped_of_disabled_only(hs, items, d) ==
    LET sk == SelectSeq(hs, LAMBDA h : ~Hook_is_enabled(h, d))
    IN  [i \in 1..Len(sk) |-> [hook |-> sk[i], reason |-> "UserDisabled"]]

\* the classification telling a hook with needs FalseConditional whether
\* it is enabled or not
Skipped_of_needs_first(hs, items, d) ==
    LET sk == SelectSeq(hs, LAMBDA h :
                  ~(Hook_is_enabled(h, d) /\ is_satisfied(h.needs, items, d)))
    IN  [i \in 1..Len(sk) |->
            [hook |-> sk[i],
             reason |-> IF Hook_is_enabled(sk[i], d) \/ sk[i].needs # <<>>
                        THEN "FalseConditional"
                        ELSE "UserDisabled"]]

\* hook.rs:252-260, the hooks pushed to skipped_hooks with their reasons
Skipped_of(hs, items, d) ==
    LET sk == SelectSeq(hs, LAMBDA h :
                  ~(Hook_is_enabled(h, d) /\ is_satisfied(h.needs, items, d)))
    IN  [i \in 1..Len(sk) |->
            [hook |-> sk[i],
             reason |-> IF Hook_is_enabled(sk[i], d) THEN "FalseConditional"
                        ELSE "UserDisabled"]]

\* the classification queueing every enabled hook, its needs satisfied or not
Queued_of_enabled(hs, items, d) ==
    SelectSeq(hs, LAMBDA h : Hook_is_enabled(h, d))

\* hook.rs:252-260, the hooks pushed to queued_hooks
Queued_of(hs, items, d) ==
    SelectSeq(hs, LAMBDA h : Hook_is_enabled(h, d) /\ is_satisfied(h.needs, items, d))

\* the tokens of one command rendered and those that render to the empty
\* text left out of the argv
render_command_dropping_empty(h, d) ==
    LET rs == [i \in 1..Len(h.command) |-> one_off(h.command[i], d)]
    IN  [ok |-> \A i \in 1..Len(rs) : rs[i].ok,
         command |-> SelectSeq([i \in 1..Len(rs) |-> rs[i].val], LAMBDA v : v # <<>>)]

\* hook.rs:268-275, the tokens of one command rendered against the data
render_command(h, d) ==
    LET rs == [i \in 1..Len(h.command) |-> one_off(h.command[i], d)]
    IN  [ok |-> \A i \in 1..Len(rs) : rs[i].ok,
         command |-> [i \in 1..Len(rs) |-> rs[i].val]]

\* the loop over queued_hooks dropping a hook whose command fails to render
\* in place of returning the error
Templated_of_drops_failed(queued, d) ==
    LET good == SelectSeq(queued, LAMBDA h : render_command(h, d).ok)
    IN  [ok |-> TRUE, key |-> "",
         hooks |-> [i \in 1..Len(good) |->
                       [good[i] EXCEPT !.command = render_command(good[i], d).command]]]

\* the loop over queued_hooks rendering every command before it returns, so
\* that the error of the last failing hook is the one returned
Templated_of_last_failure(queued, d) ==
    LET bad == {i \in 1..Len(queued) : ~render_command(queued[i], d).ok}
    IN  IF bad = {}
        THEN [ok |-> TRUE, key |-> "",
              hooks |-> [i \in 1..Len(queued) |->
                            [queued[i] EXCEPT !.command = render_command(queued[i], d).command]]]
        ELSE [ok |-> FALSE,
              key |-> queued[CHOOSE i \in bad : \A j \in bad : i >= j].key,
              hooks |-> <<>>]

\* the loop over queued_hooks leaving a command that fails to render to the
\* second loop of the stream, where it is launched as an empty program name
\* if the guard holds
Templated_of_lazy(queued, d) ==
    [ok |-> TRUE, key |-> "",
     hooks |-> [i \in 1..Len(queued) |->
                   [queued[i] EXCEPT !.command =
                        IF render_command(queued[i], d).ok
                        THEN render_command(queued[i], d).command
                        ELSE <<sEmpty>>]]]

\* the loop over queued_hooks rendering the commands in the context of the
\* guards, with every hook_ran_<key> flag "false"
Templated_of_with_flags(queued, d) ==
    LET keys == {hook_ran(hooks[i].key) : i \in 1..Len(hooks)}
        context == [k \in DOMAIN d \cup keys |-> IF k \in keys THEN sFalse ELSE d[k]]
        bad == {i \in 1..Len(queued) : ~render_command(queued[i], context).ok}
    IN  IF bad = {}
        THEN [ok |-> TRUE, key |-> "",
              hooks |-> [i \in 1..Len(queued) |->
                            [queued[i] EXCEPT
                                !.command = render_command(queued[i], context).command]]]
        ELSE [ok |-> FALSE,
              key |-> queued[CHOOSE i \in bad : \A j \in bad : i <= j].key,
              hooks |-> <<>>]

\* hook.rs:263-281, templated_hooks or the first hook whose command fails
Templated_of(queued, d) ==
    LET bad == {i \in 1..Len(queued) : ~render_command(queued[i], d).ok}
    IN  IF bad = {}
        THEN [ok |-> TRUE, key |-> "",
              hooks |-> [i \in 1..Len(queued) |->
                            [queued[i] EXCEPT !.command = render_command(queued[i], d).command]]]
        ELSE [ok |-> FALSE,
              key |-> queued[CHOOSE i \in bad : \A j \in bad : i <= j].key,
              hooks |-> <<>>]

\* hook.rs:264-281: how many tokens of each queued hook were handed to
\* Tera::one_off, for the hooks the loop came to; collect() takes no token
\* after the first Err
rendered_tokens(queued, d) ==
    LET bad == {i \in 1..Len(queued) : ~render_command(queued[i], d).ok}
        n == IF bad = {} THEN Len(queued) ELSE CHOOSE i \in bad : \A j \in bad : i <= j
        taken(h) ==
            LET errs == {t \in 1..Len(h.command) : ~one_off(h.command[t], d).ok}
            IN  IF errs = {} THEN Len(h.command)
                ELSE CHOOSE t \in errs : \A u \in errs : t <= u
    IN  [i \in 1..n |-> taken(queued[i])]

\* polyjuice::cmd_as_user(program, user) (hook.rs:286): the command is
\* built unless the system denies the user the program
cmd_as_user(program, user) == [ok |-> program \notin user.denied]

\* the loop over templated_hooks building a command for every hook before it
\* returns, so that the error names the last hook whose command is denied
Commands_of_last_failure(templated, user) ==
    LET bad == {i \in 1..Len(templated) :
                    user.some /\ ~cmd_as_user(templated[i].command[1], user).ok}
    IN  IF bad = {}
        THEN [ok |-> TRUE, key |-> "", hooks |-> templated]
        ELSE [ok |-> FALSE,
              key |-> templated[CHOOSE i \in bad : \A j \in bad : i >= j].key,
              hooks |-> <<>>]

\* the loop over templated_hooks leaving out a hook whose command is denied
Commands_of_drops_denied(templated, user) ==
    [ok |-> TRUE, key |-> "",
     hooks |-> SelectSeq(templated, LAMBDA h :
                   ~user.some \/ cmd_as_user(h.command[1], user).ok)]

\* hook.rs:283-302, the hooks of `commands`, or the first hook for which the
\* command as run_as_user cannot be built
Commands_of(templated, user) ==
    LET bad == {i \in 1..Len(templated) :
                    user.some /\ ~cmd_as_user(templated[i].command[1], user).ok}
    IN  IF bad = {}
        THEN [ok |-> TRUE, key |-> "", hooks |-> templated]
        ELSE [ok |-> FALSE,
              key |-> templated[CHOOSE i \in bad : \A j \in bad : i <= j].key,
              hooks |-> <<>>]

\* where the stream's generator stands when the first loop is at s and the
\* second at c
Position(sk, cm, s, c) ==
    IF s <= Len(sk) THEN "skip" ELSE IF c <= Len(cm) THEN "cmd" ELSE "end"

\* run_hooks (hook.rs:410-417) handling one item of the stream
Collect(results, ev) ==
    IF ev.type = "HookDone" THEN Append(results, ev) ELSE results

\* the stream yields ev and run_hooks takes it
Yield(ev) ==
    /\ events' = Append(events, ev)
    /\ hook_results' = Collect(hook_results, ev)

\* run_hooks calls run_hooks_stream (hook.rs:233-306, 405)
Construct ==
    /\ pc = "call"
    /\ LET items == Items(hooks, slots)
           sk == Skipped_of(hooks, items, data)
           t == Templated_of(Queued_of(hooks, items, data), data)
           c == Commands_of(t.hooks, run_as_user)
       IN  IF ~t.ok
           THEN /\ pc' = "err"
                /\ ret' = [kind |-> "ErrorRenderingTemplate", key |-> t.key]
                /\ UNCHANGED <<skipped_hooks, commands>>
           ELSE IF ~c.ok
           THEN /\ pc' = "err"
                /\ ret' = [kind |-> "SetupFailed", key |-> c.key]
                /\ UNCHANGED <<skipped_hooks, commands>>
           ELSE /\ skipped_hooks' = sk
                /\ commands' = c.hooks
                /\ pc' = Position(sk, c.hooks, 1, 1)
                /\ ret' = ret
    /\ UNCHANGED <<hooks, slots, run_as_user, data, si, ci, ran_hooks, events, hook_results,
                   running, spawned>>
    /\ UNCHANGED others

\* hook.rs:309
SkipStarted ==
    /\ pc = "skip"
    /\ Yield(HookStarted(skipped_hooks[si].hook.key))
    /\ pc' = "skip_done"
    /\ UNCHANGED <<hooks, slots, run_as_user, data, skipped_hooks, commands, si, ci, ran_hooks,
                   ret, running, spawned>>
    /\ UNCHANGED others

\* hook.rs:310-313
SkipDone ==
    /\ pc = "skip_done"
    /\ Yield(HookDone(skipped_hooks[si].hook.key, "Skipped", skipped_hooks[si].reason))
    /\ si' = si + 1
    /\ pc' = Position(skipped_hooks, commands, si + 1, ci)
    /\ UNCHANGED <<hooks, slots, run_as_user, data, skipped_hooks, commands, ci, ran_hooks,
                   ret, running, spawned>>
    /\ UNCHANGED others

\* hook.rs:318
CmdStarted ==
    /\ pc = "cmd"
    /\ Yield(HookStarted(commands[ci].key))
    /\ pc' = "guard"
    /\ UNCHANGED <<hooks, slots, run_as_user, data, skipped_hooks, commands, si, ci, ran_hooks,
                   ret, running, spawned>>
    /\ UNCHANGED others

\* cond_context without the loop over ran_hooks: every hook_ran_<key> is "false"
cond_context_never_ran(d, hs, ran) ==
    LET keys == {hook_ran(hs[i].key) : i \in 1..Len(hs)}
    IN  [k \in DOMAIN d \cup keys |-> IF k \in keys THEN sFalse ELSE d[k]]

\* cond_context with a ran_hooks that outlives the stream: a hook that
\* completed in an earlier run counts as run
cond_context_sticky(d, hs, ran) ==
    LET keys == {hook_ran(hs[i].key) : i \in 1..Len(hs)}
        rank == {hook_ran(ran[i]) : i \in 1..Len(ran)}
                \cup UNION {{hook_ran(history[c].events[e].key) :
                                e \in {x \in 1..Len(history[c].events) :
                                            history[c].events[x].kind = "Completed"}} :
                            c \in 1..Len(history)}
    IN  [k \in DOMAIN d \cup keys |->
            IF k \in rank THEN sTrue ELSE IF k \in keys THEN sFalse ELSE d[k]]

\* hook.rs:323-329, the context the guard is evaluated in
cond_context(d, hs, ran) ==
    LET keys == {hook_ran(hs[i].key) : i \in 1..Len(hs)}
        rank == {hook_ran(ran[i]) : i \in 1..Len(ran)}
    IN  [k \in DOMAIN d \cup keys |->
            IF k \in rank THEN sTrue ELSE IF k \in keys THEN sFalse ELSE d[k]]

\* Hook::evaluate_conditional (hook.rs:96-116)
evaluate_conditional(h, context) ==
    IF ~h.if.some THEN [ok |-> TRUE, val |-> TRUE, err |-> ""]
    ELSE LET r == one_off(h.if.t, context) IN
         IF ~r.ok THEN [ok |-> FALSE, val |-> FALSE, err |-> "InvalidTemplate"]
         ELSE LET b == parse_bool(trim(r.val)) IN
              IF b.ok THEN [ok |-> TRUE, val |-> b.val, err |-> ""]
              ELSE [ok |-> FALSE, val |-> FALSE, err |-> "NotBoolean"]

\* std::process::Output, and the io::Error of a launch that failed; the
\* exit code is as ExitStatus::code gives it, None for a process that a
\* signal ended
Launched(code, stdout, stderr) ==
    [launched |-> TRUE, code |-> code, stdout |-> stdout, stderr |-> stderr]
LaunchFailed == [launched |-> FALSE, code |-> [some |-> FALSE, val |-> 0],
                 stdout |-> <<>>, stderr |-> <<>>]
ExitCode(n) == [some |-> TRUE, val |-> n]
Signalled == [some |-> FALSE, val |-> 0]

\* cmd.current_dir(dir).output() (hook.rs:350-354): what the operating
\* system does with an argv.  Nothing is launched in a directory that does
\* not exist.  The program "true" exits 0 and "false" exits 1, both silent;
\* "on" writes to both pipes and exits 0, "no" writes to both and exits 2,
\* "0" writes and is ended by a signal; no other program exists, so
\* launching it fails.
output(argv) ==
    IF ~out_dir.exists THEN LaunchFailed
    ELSE IF argv[1] = sTrue THEN Launched(ExitCode(0), <<>>, <<>>)
    ELSE IF argv[1] = sFalse THEN Launched(ExitCode(1), <<>>, <<>>)
    ELSE IF argv[1] = sOn THEN Launched(ExitCode(0), sLoremIpsum, sOne)
    ELSE IF argv[1] = sNo THEN Launched(ExitCode(2), sLorem, sLoremIpsum)
    ELSE IF argv[1] = sZero THEN Launched(Signalled, sOne, <<>>)
    ELSE LaunchFailed

\* output.status.success()
success(status) == status.code.some /\ status.code.val = 0

\* the exit code reported as 1 whatever the process returned
exit_code_of_always_one(status) == 1

\* output.status.code().unwrap_or(1)
exit_code_of(status) == IF status.code.some THEN status.code.val ELSE 1

\* the second loop spawning the process without awaiting its output
Guard_detached ==
    /\ pc = "guard"
    /\ LET hook == commands[ci]
       IN  /\ running' = running \cup {hook.key}
           /\ spawned' = Append(spawned, hook.key)
           /\ ci' = ci + 1
           /\ pc' = Position(skipped_hooks, commands, si, ci + 1)
    /\ UNCHANGED <<hooks, slots, run_as_user, data, skipped_hooks, commands, si, ran_hooks, ret,
                   events, hook_results>>
    /\ UNCHANGED others

\* the second loop returning Error::InvalidConditional out of run_hooks when
\* the guard cannot be evaluated, in place of yielding a Failed result
Guard_conditional_is_err ==
    /\ pc = "guard"
    /\ LET hook == commands[ci]
           condition == evaluate_conditional(hook, cond_context(data, hooks, ran_hooks))
           next == Position(skipped_hooks, commands, si, ci + 1)
       IN  IF ~condition.ok
           THEN /\ pc' = "err"
                /\ ret' = [kind |-> "InvalidConditional", key |-> hook.key]
                /\ UNCHANGED <<ci, events, hook_results, running, spawned>>
           ELSE IF ~condition.val
           THEN /\ Yield(HookDone(hook.key, "Skipped", "FalseConditional"))
                /\ ci' = ci + 1
                /\ pc' = next
                /\ UNCHANGED <<running, spawned, ret>>
           ELSE IF ~output(hook.command).launched
           THEN /\ Yield(HookDone(hook.key, "Failed", "CommandLaunchFailed"))
                /\ spawned' = Append(spawned, hook.key)
                /\ ci' = ci + 1
                /\ pc' = next
                /\ UNCHANGED <<running, ret>>
           ELSE /\ running' = running \cup {hook.key}
                /\ spawned' = Append(spawned, hook.key)
                /\ pc' = "await"
                /\ UNCHANGED <<ci, events, hook_results, ret>>
    /\ UNCHANGED <<hooks, slots, run_as_user, data, skipped_hooks, commands, si, ran_hooks>>
    /\ UNCHANGED others

\* the second loop with `break` in place of `continue` after a guard that
\* is false
Guard_false_guard_breaks ==
    /\ pc = "guard"
    /\ LET hook == commands[ci]
           condition == evaluate_conditional(hook, cond_context(data, hooks, ran_hooks))
           next == Position(skipped_hooks, commands, si, ci + 1)
       IN  IF ~condition.ok
           THEN /\ Yield(HookDone(hook.key, "Failed", "ConditionalFailed"))
                /\ ci' = ci + 1
                /\ pc' = next
                /\ UNCHANGED <<running, spawned>>
           ELSE IF ~condition.val
           THEN /\ Yield(HookDone(hook.key, "Skipped", "FalseConditional"))
                /\ ci' = ci + 1
                /\ pc' = "end"
                /\ UNCHANGED <<running, spawned>>
           ELSE IF ~output(hook.command).launched
           THEN /\ Yield(HookDone(hook.key, "Failed", "CommandLaunchFailed"))
                /\ spawned' = Append(spawned, hook.key)
                /\ ci' = ci + 1
                /\ pc' = next
                /\ UNCHANGED running
           ELSE /\ running' = running \cup {hook.key}
                /\ spawned' = Append(spawned, hook.key)
                /\ pc' = "await"
                /\ UNCHANGED <<ci, events, hook_results>>
    /\ UNCHANGED <<hooks, slots, run_as_user, data, skipped_hooks, commands, si, ran_hooks, ret>>
    /\ UNCHANGED others

\* the second loop waiting for the output of a process no longer than a
\* time limit: the hook is reported Failed and the loop moves on while the
\* process runs
Guard_gives_up_waiting ==
    /\ pc = "guard"
    /\ LET hook == commands[ci]
           condition == evaluate_conditional(hook, cond_context(data, hooks, ran_hooks))
           next == Position(skipped_hooks, commands, si, ci + 1)
       IN  IF ~condition.ok
           THEN /\ Yield(HookDone(hook.key, "Failed", "ConditionalFailed"))
                /\ UNCHANGED <<running, spawned>>
           ELSE IF ~condition.val
           THEN /\ Yield(HookDone(hook.key, "Skipped", "FalseConditional"))
                /\ UNCHANGED <<running, spawned>>
           ELSE IF ~output(hook.command).launched
           THEN /\ Yield(HookDone(hook.key, "Failed", "CommandLaunchFailed"))
                /\ spawned' = Append(spawned, hook.key)
                /\ UNCHANGED running
           ELSE /\ Yield(HookDone(hook.key, "Failed", "TimedOut"))
                /\ running' = running \cup {hook.key}
                /\ spawned' = Append(spawned, hook.key)
    /\ ci' = ci + 1
    /\ pc' = Position(skipped_hooks, commands, si, ci + 1)
    /\ UNCHANGED <<hooks, slots, run_as_user, data, skipped_hooks, commands, si, ran_hooks, ret>>
    /\ UNCHANGED others

\* the second loop inserting the hook_ran flags into the data map itself,
\* without the clone
Guard_shares_context ==
    /\ pc = "guard"
    /\ data' = cond_context(data, hooks, ran_hooks)
    /\ LET hook == commands[ci]
           condition == evaluate_conditional(hook, cond_context(data, hooks, ran_hooks))
           next == Position(skipped_hooks, commands, si, ci + 1)
       IN  IF ~condition.ok
           THEN /\ Yield(HookDone(hook.key, "Failed", "ConditionalFailed"))
                /\ ci' = ci + 1
                /\ pc' = next
                /\ UNCHANGED <<running, spawned>>
           ELSE IF ~condition.val
           THEN /\ Yield(HookDone(hook.key, "Skipped", "FalseConditional"))
                /\ ci' = ci + 1
                /\ pc' = next
                /\ UNCHANGED <<running, spawned>>
           ELSE IF ~output(hook.command).launched
           THEN /\ Yield(HookDone(hook.key, "Failed", "CommandLaunchFailed"))
                /\ spawned' = Append(spawned, hook.key)
                /\ ci' = ci + 1
                /\ pc' = next
                /\ UNCHANGED running
           ELSE /\ running' = running \cup {hook.key}
                /\ spawned' = Append(spawned, hook.key)
                /\ pc' = "await"
                /\ UNCHANGED <<ci, events, hook_results>>
    /\ UNCHANGED <<hooks, slots, run_as_user, skipped_hooks, commands, si, ran_hooks, ret>>
    /\ UNCHANGED others

\* the second loop looking at the needs again when the hook is reached: a
\* hook that needs a hook which has not completed is skipped
Guard_needs_completed ==
    /\ pc = "guard"
    /\ LET hook == commands[ci]
           condition == evaluate_conditional(hook, cond_context(data, hooks, ran_hooks))
           next == Position(skipped_hooks, commands, si, ci + 1)
           unmet == \E n \in 1..Len(hook.needs) :
                        /\ \E i \in 1..Len(hooks) : hooks[i].key = hook.needs[n]
                        /\ \A r \in 1..Len(ran_hooks) : ran_hooks[r] # hook.needs[n]
       IN  IF ~condition.ok
           THEN /\ Yield(HookDone(hook.key, "Failed", "ConditionalFailed"))
                /\ ci' = ci + 1
                /\ pc' = next
                /\ UNCHANGED <<running, spawned>>
           ELSE IF ~condition.val \/ unmet
           THEN /\ Yield(HookDone(hook.key, "Skipped", "FalseConditional"))
                /\ ci' = ci + 1
                /\ pc' = next
                /\ UNCHANGED <<running, spawned>>
           ELSE IF ~output(hook.command).launched
           THEN /\ Yield(HookDone(hook.key, "Failed", "CommandLaunchFailed"))
                /\ spawned' = Append(spawned, hook.key)
                /\ ci' = ci + 1
                /\ pc' = next
                /\ UNCHANGED running
           ELSE /\ running' = running \cup {hook.key}
                /\ spawned' = Append(spawned, hook.key)
                /\ pc' = "await"
                /\ UNCHANGED <<ci, events, hook_results>>
    /\ UNCHANGED <<hooks, slots, run_as_user, data, skipped_hooks, commands, si, ran_hooks, ret>>
    /\ UNCHANGED others

\* hook.rs:320-365: the guard is evaluated, and the process is spawned when
\* it holds; each `continue` moves the second loop on
Guard ==
    /\ pc = "guard"
    /\ LET hook == commands[ci]
           condition == evaluate_conditional(hook, cond_context(data, hooks, ran_hooks))
           next == Position(skipped_hooks, commands, si, ci + 1)
       IN  IF ~condition.ok
           THEN /\ Yield(HookDone(hook.key, "Failed", "ConditionalFailed"))
                /\ ci' = ci + 1
                /\ pc' = next
                /\ UNCHANGED <<running, spawned>>
           ELSE IF ~condition.val
           THEN /\ Yield(HookDone(hook.key, "Skipped", "FalseConditional"))
                /\ ci' = ci + 1
                /\ pc' = next
                /\ UNCHANGED <<running, spawned>>
           ELSE IF ~output(hook.command).launched
           THEN /\ Yield(HookDone(hook.key, "Failed", "CommandLaunchFailed"))
                /\ spawned' = Append(spawned, hook.key)
                /\ ci' = ci + 1
                /\ pc' = next
                /\ UNCHANGED running
           ELSE /\ running' = running \cup {hook.key}
                /\ spawned' = Append(spawned, hook.key)
                /\ pc' = "await"
                /\ UNCHANGED <<ci, events, hook_results>>
    /\ UNCHANGED <<hooks, slots, run_as_user, data, skipped_hooks, commands, si, ran_hooks, ret>>
    /\ UNCHANGED others

\* the second loop pushing the key to ran_hooks before it looks at the
\* exit status
Exit_marks_failed ==
    /\ pc = "await"
    /\ LET hook == commands[ci]
           status == output(hook.command)
       IN  /\ running' = running \ {hook.key}
           /\ ran_hooks' = Append(ran_hooks, hook.key)
           /\ IF ~success(status)
              THEN Yield(HookDoneOutput(hook.key, "Failed", "CommandExited",
                                        exit_code_of(status), status.stdout, status.stderr))
              ELSE Yield(HookDoneOutput(hook.key, "Completed", "",
                                        0, status.stdout, status.stderr))
    /\ ci' = ci + 1
    /\ pc' = Position(skipped_hooks, commands, si, ci + 1)
    /\ UNCHANGED <<hooks, slots, run_as_user, data, skipped_hooks, commands, si, ret, spawned>>
    /\ UNCHANGED others

\* hook.rs:354-387: the process has exited and its output is there
Exit ==
    /\ pc = "await"
    /\ LET hook == commands[ci]
           status == output(hook.command)
       IN  /\ running' = running \ {hook.key}
           /\ IF ~success(status)
              THEN /\ Yield(HookDoneOutput(hook.key, "Failed", "CommandExited",
                                           exit_code_of(status), status.stdout, status.stderr))
                   /\ UNCHANGED ran_hooks
              ELSE /\ ran_hooks' = Append(ran_hooks, hook.key)
                   /\ Yield(HookDoneOutput(hook.key, "Completed", "",
                                           0, status.stdout, status.stderr))
    /\ ci' = ci + 1
    /\ pc' = Position(skipped_hooks, commands, si, ci + 1)
    /\ UNCHANGED <<hooks, slots, run_as_user, data, skipped_hooks, commands, si, ret, spawned>>
    /\ UNCHANGED others

\* hook.rs:388-389, 410, 419-422: the stream ends and run_hooks returns Ok
End ==
    /\ pc = "end"
    /\ pc' = "closed"
    /\ ret' = [kind |-> "Ok", key |-> ""]
    /\ UNCHANGED <<hooks, slots, run_as_user, data, skipped_hooks, commands, si, ci, ran_hooks,
                   events, hook_results, running, spawned>>
    /\ UNCHANGED others

Next ==
    \/ Construct
    \/ SkipStarted
    \/ SkipDone
    \/ CmdStarted
    \/ Guard
    \/ Exit
    \/ End

Spec == Init /\ [][Next]_vars

\* the steps the stream takes when its consumer polls it (hook.rs:410:
\* run_hooks polls until the stream ends)
Poll == Construct \/ SkipStarted \/ SkipDone \/ CmdStarted \/ Guard \/ End

\* in how many places the manifests and data differ from the plain ones in
\* the runs whose completion is checked
MaxLiveFeatures == 1

LiveInit ==
    /\ \E n \in 0..MaxHooks : StartsFrom(PlainConfig(n), 0, MaxLiveFeatures, Changes(n))
    /\ NotStarted
    /\ NoProject
    /\ NoFn

\* the runs in which the consumer keeps polling and every process that was
\* spawned exits
SpecLive == LiveInit /\ [][Next]_vars /\ WF_vars(Poll) /\ WF_vars(Exit)

----------------------------------------------------------------------------
(* Project (lib.rs): the methods that build the context and call the engine *)

\* how many calls of Project's methods a session of the library makes
MaxCalls == 2

sProject == <<"p", "r", "o", "j", "e", "c", "t">>
sApp == <<"a", "p", "p">>
sTpl == <<"t", "p", "l">>
sOut == <<"o", "u", "t">>
sCwd == <<"c", "w", "d">>

None == [some |-> FALSE, val |-> <<>>]
Some(v) == [some |-> TRUE, val |-> v]

\* Project::get_name (lib.rs:89-104)
get_name(p) ==
    IF p.name.some THEN p.name.val
    ELSE IF ~p.path.ok THEN sEmpty
    ELSE p.path.stem

\* get_output_name (lib.rs:42-53): the file name of the canonical path when
\* the directory exists, of the path as given when it does not, "project"
\* when the path has no file name
get_output_name(o) ==
    LET file_name == IF o.exists THEN Some(o.real) ELSE o.raw
    IN  IF file_name.some THEN file_name.val ELSE sProject

\* the two inserts keeping a value the caller supplied (entry().or_insert())
with_reserved_keys_caller_wins(d, p, o) ==
    LET mine == [k \in {"_project_name", "_output_name"} |->
                    IF k = "_project_name" THEN get_name(p) ELSE get_output_name(o)]
    IN  [k \in DOMAIN d \cup DOMAIN mine |-> IF k \in DOMAIN d THEN d[k] ELSE mine[k]]

\* lib.rs:133-135, 163-165, 175-177, 191-193, 216-218: the clone of the
\* caller's data with the two reserved keys inserted
with_reserved_keys(d, p, o) ==
    insert(insert(d, "_project_name", get_name(p)), "_output_name", get_output_name(o))

\* fs::remove_dir_all(out_dir)
remove_dir_all(o) == [o EXCEPT !.exists = FALSE, !.files = {}]

\* what copy::copy may do (copy.rs:37-120): copy every file, fail before it
\* wrote anything, or fail after it created the directory
CopyOutcomes == {"ok", "failed", "partial"}

copy(o, outcome) ==
    CASE outcome = "ok" ->
            [ok |-> TRUE, dir |-> [o EXCEPT !.exists = TRUE, !.files = @ \cup {"copied"}]]
      [] outcome = "partial" -> [ok |-> FALSE, dir |-> [o EXCEPT !.exists = TRUE]]
      [] outcome = "failed" -> [ok |-> FALSE, dir |-> o]

\* a template file of the project: its contents and its name, both rendered
TemplateFile(contents, name) == [contents |-> contents, name |-> name]

\* Result<RenderedFile, FileError> for the template file at position i
RenderedFile(i) == [ok |-> TRUE, kind |-> "", file |-> i]
FileError(kind, i) == [ok |-> FALSE, kind |-> kind, file |-> i]

\* what the environment of template::fill may do (template.rs:47-121): let
\* every step through, fail Tera::new (a template that does not parse), or
\* refuse to create the destination of every file
FillOutcomes == {"ok", "tera_error", "file_error"}

\* the closure of template::fill (template.rs:58-118) for one template file
fill_one(i, t, context, outcome) ==
    IF ~one_off(t.contents, context).ok THEN FileError("ErrorRenderingContents", i)
    ELSE IF ~one_off(t.name, context).ok THEN FileError("ErrorRenderingName", i)
    ELSE IF outcome = "file_error" THEN FileError("ErrorCreatingDest", i)
    ELSE RenderedFile(i)

\* template::fill that stops at the first file that fails
\* (collect::<Result<Vec<_>, _>>() in place of collect::<Vec<_>>())
fill_until_error(p, names, context, o, outcome) ==
    IF outcome = "tera_error" THEN [ok |-> FALSE, file_error |-> FALSE, results |-> <<>>, dir |-> o]
    ELSE LET all == [i \in 1..Len(names) |->
                        fill_one(names[i], p.templates[names[i]], context, outcome)]
             bad == {i \in 1..Len(all) : ~all[i].ok}
             upto == IF bad = {} THEN Len(all) ELSE CHOOSE i \in bad : \A j \in bad : i <= j
             results == SubSeq(all, 1, upto)
             written == \E i \in 1..Len(results) : results[i].ok
         IN  [ok |-> TRUE,
              file_error |-> bad # {},
              results |-> results,
              dir |-> IF written
                      THEN [o EXCEPT !.exists = TRUE, !.files = @ \cup {"rendered"}]
                      ELSE o]

\* tera.get_template_names() (template.rs:57): the template files of the
\* project in the order the map of Tera gives them, which is any order
TemplateNames(p) ==
    {q \in [1..Len(p.templates) -> 1..Len(p.templates)] :
        \A i, j \in 1..Len(p.templates) : i # j => q[i] # q[j]}

\* template::fill (template.rs:47-121): one entry for each template file
fill(p, names, context, o, outcome) ==
    IF outcome = "tera_error" THEN [ok |-> FALSE, file_error |-> FALSE, results |-> <<>>, dir |-> o]
    ELSE LET results == [i \in 1..Len(names) |->
                            fill_one(names[i], p.templates[names[i]], context, outcome)]
             written == \E i \in 1..Len(results) : results[i].ok
         IN  [ok |-> TRUE,
              file_error |-> \E i \in 1..Len(results) : ~results[i].ok,
              results |-> results,
              dir |-> IF written
                      THEN [o EXCEPT !.exists = TRUE, !.files = @ \cup {"rendered"}]
                      ELSE o]

\* one call of a method of Project: the directory it found, whether it
\* loaded the config, the context it handed on and to which functions, what
\* it returned and what its stream yielded
Call(fn, existed, loaded, context, passed_to, r, evs) ==
    [fn |-> fn, existed |-> existed, loaded |-> loaded, context |-> context,
     passed_to |-> passed_to, ret |-> r, events |-> evs]

\* the engine is at rest: no run of the hooks is under way
AtRest ==
    /\ pc = "idle"
    /\ data = <<>>
    /\ skipped_hooks = <<>>
    /\ commands = <<>>
    /\ si = 1
    /\ ci = 1
    /\ ran_hooks = <<>>
    /\ events = <<>>
    /\ hook_results = <<>>
    /\ ret = [kind |-> "none", key |-> ""]
    /\ running = {}
    /\ spawned = <<>>

MayCall == pc = "idle" /\ cli = "none" /\ Len(history) < MaxCalls

engine == <<data, pc, skipped_hooks, commands, si, ci, ran_hooks, events,
            hook_results, ret, running, spawned>>

\* what a method returned: a kind and, for an error of a hook, its key
Ret(kind) == [kind |-> kind, key |-> ""]

\* what generate and render_templates returned: a kind and the entries of
\* the vector, or the FileError, that come with it; next to it the entries
\* template::fill had returned to the method
RetFiles(kind, files, entries) ==
    [kind |-> kind, key |-> "", files |-> files, entries |-> entries]

\* lib.rs:146-153: the first entry that is an error
first_error(results) ==
    LET i == CHOOSE i \in 1..Len(results) :
                ~results[i].ok /\ \A j \in 1..(i - 1) : results[j].ok
    IN  results[i]

\* Project::generate without the check of out_dir.exists()
Project_generate_unchecked ==
    /\ MayCall
    /\ \E c \in CopyOutcomes, f \in FillOutcomes, names \in TemplateNames(project) :
        LET context == with_reserved_keys(slot_data, project, out_dir)
            copied == copy(out_dir, c)
            filled == fill(project, names, context, copied.dir, f)
            returns(r) ==
                history' = Append(history,
                    Call("generate", out_dir.exists, TRUE, context, <<"copy", "fill">>,
                         r, <<>>))
        IN
        IF ~copied.ok
        THEN returns(Ret("CopyError")) /\ out_dir' = copied.dir
        ELSE IF ~filled.ok
        THEN returns(Ret("TemplateError")) /\ out_dir' = filled.dir
        ELSE IF filled.file_error
        THEN returns(RetFiles("FileError", <<first_error(filled.results)>>, filled.results))
             /\ out_dir' = filled.dir
        ELSE returns(RetFiles("Ok", filled.results, filled.results)) /\ out_dir' = filled.dir
    /\ UNCHANGED <<hooks, slots, run_as_user, engine, project, slot_data, cli, fn_in, fn_out>>

\* Project::generate (lib.rs:121-156)
Project_generate ==
    /\ MayCall
    /\ \E load_ok \in BOOLEAN, c \in CopyOutcomes, f \in FillOutcomes,
       names \in TemplateNames(project) :
        LET context == with_reserved_keys(slot_data, project, out_dir)
            copied == copy(out_dir, c)
            filled == fill(project, names, context, copied.dir, f)
            returns(loaded, passed_to, r) ==
                history' = Append(history,
                    Call("generate", out_dir.exists, loaded,
                         IF passed_to = <<>> THEN <<>> ELSE context, passed_to,
                         r, <<>>))
        IN
        IF out_dir.exists
        THEN returns(FALSE, <<>>, Ret("AlreadyExists")) /\ out_dir' = out_dir
        ELSE IF ~load_ok
        THEN returns(TRUE, <<>>, Ret("BadConfig")) /\ out_dir' = out_dir
        ELSE IF ~copied.ok
        THEN returns(TRUE, <<"copy">>, Ret("CopyError")) /\ out_dir' = copied.dir
        ELSE IF ~filled.ok
        THEN returns(TRUE, <<"copy", "fill">>, Ret("TemplateError")) /\ out_dir' = filled.dir
        ELSE IF filled.file_error
        THEN returns(TRUE, <<"copy", "fill">>,
                     RetFiles("FileError", <<first_error(filled.results)>>, filled.results))
             /\ out_dir' = filled.dir
        ELSE returns(TRUE, <<"copy", "fill">>, RetFiles("Ok", filled.results, filled.results))
             /\ out_dir' = filled.dir
    /\ UNCHANGED <<hooks, slots, run_as_user, engine, project, slot_data, cli, fn_in, fn_out>>

\* Project::copy_files (lib.rs:158-168)
Project_copy_files ==
    /\ MayCall
    /\ \E c \in CopyOutcomes :
        LET context == with_reserved_keys(slot_data, project, out_dir)
            copied == copy(out_dir, c)
        IN  /\ out_dir' = copied.dir
            /\ history' = Append(history,
                    Call("copy_files", out_dir.exists, FALSE, context, <<"copy">>,
                         Ret(IF copied.ok THEN "Ok" ELSE "CopyError"), <<>>))
    /\ UNCHANGED <<hooks, slots, run_as_user, engine, project, slot_data, cli, fn_in, fn_out>>

\* Project::render_templates (lib.rs:170-180)
Project_render_templates ==
    /\ MayCall
    /\ \E f \in FillOutcomes, names \in TemplateNames(project) :
        LET context == with_reserved_keys(slot_data, project, out_dir)
            filled == fill(project, names, context, out_dir, f)
        IN  /\ out_dir' = filled.dir
            /\ history' = Append(history,
                    Call("render_templates", out_dir.exists, FALSE, context, <<"fill">>,
                         IF filled.ok THEN RetFiles("Ok", filled.results, filled.results)
                         ELSE Ret("TemplateError"), <<>>))
    /\ UNCHANGED <<hooks, slots, run_as_user, engine, project, slot_data, cli, fn_in, fn_out>>

\* a method of Project calling the engine with the context as data
CallsEngine(fn) ==
    /\ pc = "idle"
    /\ LET context == with_reserved_keys(slot_data, project, out_dir)
       IN  /\ data' = context
           /\ history' = Append(history,
                    Call(fn, out_dir.exists, FALSE, context, <<fn>>, Ret("none"), <<>>))
    /\ pc' = "call"
    /\ UNCHANGED <<hooks, slots, run_as_user, skipped_hooks, commands, si, ci, ran_hooks, events,
                   hook_results, ret, running, spawned>>
    /\ UNCHANGED <<project, out_dir, slot_data, cli, fn_in, fn_out>>

\* Project::run_hooks_stream (lib.rs:185-205)
Project_run_hooks_stream ==
    /\ MayCall
    /\ CallsEngine("run_hooks_stream")

\* Project::run_hooks (lib.rs:210-229)
Project_run_hooks ==
    /\ MayCall
    /\ CallsEngine("run_hooks")

\* lib.rs:202-204, 226-228: the engine has returned, or its stream has
\* ended, and so does the method
Project_return ==
    /\ pc \in {"closed", "err"}
    /\ cli = "none"
    /\ history # <<>>
    /\ history' = [history EXCEPT ![Len(history)].ret = ret,
                                  ![Len(history)].events = events]
    /\ pc' = "idle"
    /\ data' = <<>>
    /\ skipped_hooks' = <<>>
    /\ commands' = <<>>
    /\ si' = 1
    /\ ci' = 1
    /\ ran_hooks' = <<>>
    /\ events' = <<>>
    /\ hook_results' = <<>>
    /\ ret' = [kind |-> "none", key |-> ""]
    /\ running' = {}
    /\ spawned' = <<>>
    /\ UNCHANGED <<hooks, slots, run_as_user, project, out_dir, slot_data, cli, fn_in, fn_out>>

\* the manifests the sessions of the library run
LibHooks ==
    << <<>>,
       <<PlainHook(1), [PlainHook(2) EXCEPT !.if = SomeIf(Var(hook_ran(HookKeys[1])))]>>,
       <<[PlainHook(1) EXCEPT !.command = <<Lit(sFalse)>>], PlainHook(2)>>,
       <<[PlainHook(1) EXCEPT !.if = SomeIf(Var(FieldKey))],
         [PlainHook(2) EXCEPT !.optional = SomeOpt(FALSE)]>>,
       <<[PlainHook(1) EXCEPT !.command = <<Var("_output_name")>>]>>,
       <<PlainHook(1), [PlainHook(2) EXCEPT !.command = <<Var(UnknownKey)>>]>>,
       <<[PlainHook(1) EXCEPT !.if = SomeIf(Var(hook_ran(HookKeys[2])))], PlainHook(2)>>,
       <<[PlainHook(1) EXCEPT !.command = <<Lit(sOn)>>],
         [PlainHook(2) EXCEPT !.command = <<Lit(sNo)>>],
         [PlainHook(3) EXCEPT !.command = <<Lit(sZero)>>]>>,
       <<PlainHook(1), [PlainHook(2) EXCEPT !.command = <<Var(hook_ran(HookKeys[1]))>>]>> >>

\* the data maps a caller hands over: with and without the template field,
\* with and without values of its own for the reserved keys
LibData ==
    {<<>>, [k \in {FieldKey} |-> sPadTrue],
     [k \in {"_project_name", "_output_name"} |-> sOn],
     [k \in {FieldKey, "_project_name", "_output_name"} |->
        IF k = FieldKey THEN sPadTrue ELSE sOn]}

\* the projects: with and without a name and a file stem, with template
\* files that use the template field, a reserved key and an undefined key
LibProjects ==
    {[name |-> Some(sApp), path |-> [ok |-> TRUE, stem |-> sTpl],
      templates |-> <<TemplateFile(Var(FieldKey), Lit(sApp)),
                      TemplateFile(Lit(sLorem), Var("_output_name"))>>],
     [name |-> None, path |-> [ok |-> TRUE, stem |-> sTpl],
      templates |-> <<TemplateFile(Var("_project_name"), Lit(sApp)),
                      TemplateFile(Lit(sLorem), Var(UnknownKey))>>],
     [name |-> None, path |-> [ok |-> FALSE, stem |-> <<>>], templates |-> <<>>]}

LibOutDirs ==
    {[raw |-> Some(sOut), real |-> sOut, exists |-> FALSE, files |-> {}],
     [raw |-> Some(sOut), real |-> sOut, exists |-> TRUE, files |-> {"old"}],
     [raw |-> None, real |-> sCwd, exists |-> TRUE, files |-> {"old"}]}

LibInit ==
    /\ \E i \in 1..Len(LibHooks) : hooks = LibHooks[i]
    /\ slots = PlainConfig(0).slots
    /\ run_as_user = NoUser
    /\ slot_data \in LibData
    /\ project \in LibProjects
    /\ out_dir \in LibOutDirs
    /\ history = <<>>
    /\ cli = "none"
    /\ AtRest
    /\ NoFn

LibNext ==
    \/ Project_generate
    \/ Project_copy_files
    \/ Project_render_templates
    \/ Project_run_hooks_stream
    \/ Project_run_hooks
    \/ Project_return
    \/ Construct
    \/ SkipStarted
    \/ SkipDone
    \/ CmdStarted
    \/ Guard
    \/ Exit
    \/ End

SpecLib == LibInit /\ [][LibNext]_vars

----------------------------------------------------------------------------
(* The CLI (cli/src/fill.rs): run_multi *)

\* the last item the stream yielded is a HookDone with a Failed result
LastEventFailed ==
    /\ events # <<>>
    /\ events[Len(events)].type = "HookDone"
    /\ events[Len(events)].kind = "Failed"

\* fill.rs:296-333: project.copy_files, and the rollback when it fails
Cli_copy ==
    /\ cli = "copy"
    /\ \E c \in CopyOutcomes :
        LET context == with_reserved_keys(slot_data, project, out_dir)
            copied == copy(out_dir, c)
        IN  /\ history' = Append(history,
                    Call("copy_files", out_dir.exists, FALSE, context, <<"copy">>,
                         Ret(IF copied.ok THEN "Ok" ELSE "CopyError"), <<>>))
            /\ IF copied.ok
               THEN /\ out_dir' = copied.dir
                    /\ cli' = "fill"
               ELSE /\ out_dir' = remove_dir_all(copied.dir)
                    /\ cli' = "exit1"
    /\ UNCHANGED <<hooks, slots, run_as_user, engine, project, slot_data, fn_in, fn_out>>

\* fill.rs:335-394: project.render_templates; a file that could not be
\* processed is a warning, an Err removes the directory, and run_multi goes on
Cli_fill ==
    /\ cli = "fill"
    /\ \E f \in FillOutcomes, names \in TemplateNames(project) :
        LET context == with_reserved_keys(slot_data, project, out_dir)
            filled == fill(project, names, context, out_dir, f)
        IN  /\ history' = Append(history,
                    Call("render_templates", out_dir.exists, FALSE, context, <<"fill">>,
                         IF filled.ok THEN RetFiles("Ok", filled.results, filled.results)
                         ELSE Ret("TemplateError"), <<>>))
            /\ out_dir' = IF filled.ok THEN filled.dir ELSE remove_dir_all(filled.dir)
    /\ cli' = "hooks"
    /\ UNCHANGED <<hooks, slots, run_as_user, engine, project, slot_data, fn_in, fn_out>>

\* fill.rs:396-415: no hooks, or the runtime cannot be built, or
\* project.run_hooks_stream is called
Cli_hooks ==
    /\ cli = "hooks"
    /\ IF hooks = <<>>
       THEN /\ cli' = "exit0"
            /\ UNCHANGED <<engine, history>>
       ELSE \E runtime_ok \in BOOLEAN :
            IF ~runtime_ok
            THEN /\ cli' = "exit1"
                 /\ UNCHANGED <<engine, history>>
            ELSE /\ cli' = "stream"
                 /\ LET context == with_reserved_keys(slot_data, project, out_dir)
                    IN  /\ data' = context
                        /\ history' = Append(history,
                                Call("run_hooks_stream", out_dir.exists, FALSE, context,
                                     <<"run_hooks_stream">>, Ret("none"), <<>>))
                 /\ pc' = "call"
                 /\ UNCHANGED <<skipped_hooks, commands, si, ci, ran_hooks, events,
                                hook_results, ret, running, spawned>>
    /\ UNCHANGED <<hooks, slots, run_as_user, project, out_dir, slot_data, fn_in, fn_out>>

\* fill.rs:417-427: the stream could not be constructed
Cli_stream_error ==
    /\ cli = "stream"
    /\ pc = "err"
    /\ out_dir' = remove_dir_all(out_dir)
    /\ cli' = "exit1"
    /\ UNCHANGED <<hooks, slots, run_as_user, engine, project, slot_data, history, fn_in, fn_out>>

\* fill.rs:438-466: a HookDone with a Failed result ends the process
Cli_hook_failed ==
    /\ cli = "stream"
    /\ LastEventFailed
    /\ cli' = "exit1"
    /\ UNCHANGED <<hooks, slots, run_as_user, engine, project, out_dir, slot_data, history, fn_in, fn_out>>

\* fill.rs:432, 499-501: the stream has ended and run_multi returns
Cli_return ==
    /\ cli = "stream"
    /\ pc = "end"
    /\ ~LastEventFailed
    /\ cli' = "exit0"
    /\ pc' = "closed"
    /\ UNCHANGED <<hooks, slots, run_as_user, data, skipped_hooks, commands, si, ci, ran_hooks, events,
                   hook_results, ret, running, spawned>>
    /\ UNCHANGED <<project, out_dir, slot_data, history, fn_in, fn_out>>

\* the loop of run_multi polling the stream also after a HookDone with a
\* Failed result
Cli_poll_after_failure ==
    /\ cli = "stream"
    /\ \/ Construct
       \/ SkipStarted
       \/ SkipDone
       \/ CmdStarted
       \/ Guard
       \/ Exit

\* fill.rs:432: the loop of run_multi polls the stream for its next item
Cli_poll ==
    /\ cli = "stream"
    /\ ~LastEventFailed
    /\ \/ Construct
       \/ SkipStarted
       \/ SkipDone
       \/ CmdStarted
       \/ Guard
       \/ Exit

\* run_multi is entered: the directory does not exist, or exists and is to
\* be overwritten (fill.rs:254-268)
CliInit ==
    /\ \E i \in 1..Len(LibHooks) : hooks = LibHooks[i]
    /\ slots = PlainConfig(0).slots
    /\ run_as_user = NoUser
    /\ slot_data \in LibData
    /\ project \in LibProjects
    /\ out_dir \in LibOutDirs
    /\ history = <<>>
    /\ cli = "copy"
    /\ AtRest
    /\ NoFn

CliNext ==
    \/ Cli_copy
    \/ Cli_fill
    \/ Cli_hooks
    \/ Cli_stream_error
    \/ Cli_hook_failed
    \/ Cli_return
    \/ Cli_poll

SpecCli == CliInit /\ [][CliNext]_vars

----------------------------------------------------------------------------
(* Hook::evaluate_conditional and Slot::is_enabled applied on their own *)

\* how many blanks are put before and after a text
MaxPad == 1

RECURSIVE Spaces(_)
Spaces(n) == IF n = 0 THEN <<>> ELSE <<" ">> \o Spaces(n - 1)

\* the texts a guard renders to and a slot holds
BaseTexts == {sEmpty, sZero, sTrue, sFalse, sFaLSE, sTrueCap, sOne, sLoremIpsum,
              sZeroZero, sNo, sZeroDotZero, sOn}

Texts == {Spaces(l) \o s \o Spaces(r) : l \in 0..MaxPad, r \in 0..MaxPad, s \in BaseTexts}

\* the contexts and data maps: without the key, and with it for each text
MapsOf(k) == {<<>>} \cup {[x \in {k} |-> s] : s \in Texts}

SlotTypes == {"String", "Number", "Boolean"}

FnInputs ==
    {[fn |-> "evaluate_conditional", if |-> NoIf, type |-> "", context |-> c] :
        c \in MapsOf(FieldKey)}
    \cup {[fn |-> "evaluate_conditional", if |-> SomeIf(Lit(s)), type |-> "", context |-> <<>>] :
        s \in Texts}
    \cup {[fn |-> "evaluate_conditional", if |-> SomeIf(Var(FieldKey)), type |-> "",
           context |-> c] : c \in MapsOf(FieldKey)}
    \cup {[fn |-> "Slot_is_enabled", if |-> NoIf, type |-> t, context |-> c] :
        t \in SlotTypes, c \in MapsOf(SlotKeys[1])}

\* how many slots a manifest declares when Config::validate is applied to it
MaxSlots == 2

\* the sequences of at most n elements of S
RECURSIVE SeqsUpTo(_, _)
SeqsUpTo(S, n) ==
    IF n = 0 THEN {<<>>}
    ELSE LET shorter == SeqsUpTo(S, n - 1)
         IN  shorter \cup {Append(q, x) : q \in shorter, x \in S}

\* the keys a manifest file gives its slots and hooks: toml::from_str takes
\* any key for either, so one key may come twice
ConfigKeys == {HookKeys[1], HookKeys[2], SlotKeys[1]}

\* the hook lists and slot lists of a manifest as config::load returns it,
\* before Config::validate has seen it
LoadedHooks ==
    {[i \in 1..Len(ks) |-> [PlainHook(1) EXCEPT !.key = ks[i]]] :
        ks \in SeqsUpTo(ConfigKeys, MaxHooks)}

LoadedSlots ==
    {[i \in 1..Len(ks) |-> [PlainSlot(1) EXCEPT !.key = ks[i]]] :
        ks \in SeqsUpTo(ConfigKeys, MaxSlots)}

\* the hook lists of a validated manifest, each hook with or without `optional`
OptionalHooks ==
    {[i \in 1..Len(os) |-> [PlainHook(i) EXCEPT !.optional = os[i]]] :
        os \in SeqsUpTo({NoOpt, SomeOpt(FALSE)}, MaxHooks)}

\* the values of the hook data of the CLI: booleans, and texts that
\* str::parse::<bool> refuses
HookDataTexts == {sTrue, sFalse, sTrueCap, sPadTrue}

\* the hook data: entries for the first two hooks and for a key that names
\* no hook, each present or not
HookData ==
    UNION {[ks -> HookDataTexts] : ks \in SUBSET {HookKeys[1], HookKeys[2], UnknownKey}}

FnCall(fn, context) == [fn |-> fn, if |-> NoIf, type |-> "", context |-> context]

\* how many keys the needs of a hook name when the classification of
\* run_hooks_stream is applied on its own
MaxNeeds == 2

\* the keys these needs name: the two hooks, a slot, and a key of no item
NeedKeys == {HookKeys[1], HookKeys[2], SlotKeys[1], UnknownKey}

\* the hook lists whose needs may form cycles: one or two hooks, each
\* optional (default false) or not, each with any needs
NeedyHooks ==
    LET one(i) == {[PlainHook(i) EXCEPT !.optional = o, !.needs = ns] :
                        o \in {NoOpt, SomeOpt(FALSE)}, ns \in SeqsUpTo(NeedKeys, MaxNeeds)}
    IN  {<<a>> : a \in one(1)} \cup {<<a, b>> : a \in one(1), b \in one(2)}

\* the slot lists: the first slot needs nothing, or the first hook
NeedySlots ==
    {PlainConfig(0).slots,
     [PlainConfig(0).slots EXCEPT ![1].needs = <<HookKeys[1]>>]}

\* the data: the first slot without a value (not enabled) or with one
NeedyData == {<<>>, [k \in {SlotKeys[1]} |-> sOn]}

\* one hook, optional with either default or not optional, for
\* Hook::is_enabled applied on its own
OverriddenHooks ==
    {<<[PlainHook(1) EXCEPT !.optional = o]>> : o \in {NoOpt, SomeOpt(TRUE), SomeOpt(FALSE)}}

\* how many tokens a command has when the rendering of the commands is
\* applied on its own
MaxTokens == 2

\* the tokens: literal text and the placeholders of two keys
Tokens == {Lit(sTrue), Var(FieldKey), Var(SlotKeys[1])}

\* one or two queued hooks, each with a command of any tokens
TokenHooks ==
    LET one(i) == {[PlainHook(i) EXCEPT !.command = c] : c \in SeqsUpTo(Tokens, MaxTokens)}
    IN  {<<a>> : a \in one(1)} \cup {<<a, b>> : a \in one(1), b \in one(2)}

\* the data: each of the two keys with a value or without
TokenData ==
    {<<>>, [k \in {FieldKey} |-> sLorem], [k \in {SlotKeys[1]} |-> sEmpty],
     [k \in {FieldKey, SlotKeys[1]} |-> IF k = FieldKey THEN sLorem ELSE sEmpty]}

FnInit ==
    /\ \/ /\ fn_in \in FnInputs
          /\ hooks = <<>>
          /\ slots = <<>>
       \/ /\ fn_in \in {FnCall("Config_validate", <<>>), FnCall("load_project", <<>>)}
          /\ hooks \in LoadedHooks
          /\ slots \in LoadedSlots
       \/ /\ fn_in \in {FnCall("validate_data", d) : d \in HookData}
          /\ hooks \in OptionalHooks
          /\ slots = <<>>
       \/ /\ fn_in \in {FnCall("classify", d) : d \in NeedyData}
          /\ hooks \in NeedyHooks
          /\ slots \in NeedySlots
       \/ /\ fn_in \in {FnCall("Templated_of", d) : d \in TokenData}
          /\ hooks \in TokenHooks
          /\ slots = <<>>
       \/ /\ fn_in \in {FnCall("Hook_is_enabled", d) : d \in MapsOf(HookKeys[1])}
          /\ hooks \in OverriddenHooks
          /\ slots = <<>>
    /\ run_as_user = NoUser
    /\ fn_out = [done |-> FALSE, ok |-> FALSE, val |-> FALSE, err |-> ""]
    /\ AtRest
    /\ NoProject

\* hook.evaluate_conditional(&context)
Apply_evaluate_conditional ==
    /\ fn_in.fn = "evaluate_conditional"
    /\ ~fn_out.done
    /\ LET r == evaluate_conditional([PlainHook(1) EXCEPT !.if = fn_in.if], fn_in.context)
       IN  fn_out' = [done |-> TRUE, ok |-> r.ok, val |-> r.val, err |-> r.err]
    /\ UNCHANGED <<hooks, slots, run_as_user, engine, project, out_dir, slot_data, history, cli, fn_in>>

\* hook.rs:264-281 applied to the hooks as queued_hooks
Apply_Templated_of ==
    /\ fn_in.fn = "Templated_of"
    /\ ~fn_out.done
    /\ LET t == Templated_of(hooks, fn_in.context)
       IN  fn_out' = [done |-> TRUE, ok |-> t.ok, val |-> FALSE,
                      err |-> IF t.ok THEN "" ELSE "ErrorRenderingTemplate",
                      key |-> t.key, hooks |-> t.hooks,
                      rendered |-> rendered_tokens(hooks, fn_in.context)]
    /\ UNCHANGED <<hooks, slots, run_as_user, engine, project, out_dir, slot_data, history, cli, fn_in>>

\* hook.is_enabled(&data)
Apply_Hook_is_enabled ==
    /\ fn_in.fn = "Hook_is_enabled"
    /\ ~fn_out.done
    /\ fn_out' = [done |-> TRUE, ok |-> TRUE, val |-> Hook_is_enabled(hooks[1], fn_in.context),
                  err |-> ""]
    /\ UNCHANGED <<hooks, slots, run_as_user, engine, project, out_dir, slot_data, history, cli, fn_in>>

\* slot.is_enabled(&data)
Apply_Slot_is_enabled ==
    /\ fn_in.fn = "Slot_is_enabled"
    /\ ~fn_out.done
    /\ LET slot == [key |-> SlotKeys[1], needs |-> <<>>, type |-> fn_in.type]
       IN  fn_out' = [done |-> TRUE, ok |-> TRUE, val |-> Slot_is_enabled(slot, fn_in.context),
                      err |-> ""]
    /\ UNCHANGED <<hooks, slots, run_as_user, engine, project, out_dir, slot_data, history, cli, fn_in>>

\* Config::validate without the check for duplicate keys within the slots
Config_validate_hooks_only(c) ==
    LET hook_keys == {c.hooks[i].key : i \in 1..Len(c.hooks)}
        slot_keys == {c.slots[i].key : i \in 1..Len(c.slots)}
        shared_keys == hook_keys \cap slot_keys
    IN  IF shared_keys # {} THEN [ok |-> FALSE, err |-> "DuplicateKey"]
        ELSE IF Cardinality(hook_keys) # Len(c.hooks)
        THEN [ok |-> FALSE, err |-> "DuplicateKey"]
        ELSE [ok |-> TRUE, err |-> ""]

\* Config::validate (config.rs:61-92)
Config_validate(c) ==
    LET hook_keys == {c.hooks[i].key : i \in 1..Len(c.hooks)}
        slot_keys == {c.slots[i].key : i \in 1..Len(c.slots)}
        shared_keys == hook_keys \cap slot_keys
    IN  IF shared_keys # {} THEN [ok |-> FALSE, err |-> "DuplicateKey"]
        ELSE IF Cardinality(hook_keys) # Len(c.hooks)
        THEN [ok |-> FALSE, err |-> "DuplicateKey"]
        ELSE IF Cardinality(slot_keys) # Len(c.slots)
        THEN [ok |-> FALSE, err |-> "DuplicateKey"]
        ELSE [ok |-> TRUE, err |-> ""]

\* config.validate()
Apply_Config_validate ==
    /\ fn_in.fn = "Config_validate"
    /\ ~fn_out.done
    /\ LET r == Config_validate([hooks |-> hooks, slots |-> slots])
       IN  fn_out' = [done |-> TRUE, ok |-> r.ok, val |-> FALSE, err |-> r.err]
    /\ UNCHANGED <<hooks, slots, run_as_user, engine, project, out_dir, slot_data, history, cli, fn_in>>

\* what config::load may return (config.rs:33-58)
LoadOutcomes == {"Ok", "ReadError", "ParseError"}

\* load_project (lib.rs:71-80): config::load(path)?, config.validate()?,
\* Ok(Project)
Apply_load_project ==
    /\ fn_in.fn = "load_project"
    /\ ~fn_out.done
    /\ \E loaded \in LoadOutcomes :
        LET r == Config_validate([hooks |-> hooks, slots |-> slots])
        IN  fn_out' = IF loaded # "Ok"
                      THEN [done |-> TRUE, ok |-> FALSE, val |-> FALSE, err |-> loaded]
                      ELSE [done |-> TRUE, ok |-> r.ok, val |-> FALSE, err |-> r.err]
    /\ UNCHANGED <<hooks, slots, run_as_user, engine, project, out_dir, slot_data, history, cli, fn_in>>

\* the entry of validate_data without the test of hook.optional
validate_entry_any_hook(key, value, hs) ==
    LET f == find(hs, key)
    IN  IF ~f.some THEN [ok |-> FALSE, err |-> "UnknownKey", key |-> key]
        ELSE IF ~parse_bool(value).ok THEN [ok |-> FALSE, err |-> "NotABoolean", key |-> key]
        ELSE [ok |-> TRUE, err |-> "", key |-> ""]

\* the body of the loop of validate_data (hook.rs:447-458) for one entry
validate_entry(key, value, hs) ==
    LET f == find(hs, key)
    IN  IF ~f.some THEN [ok |-> FALSE, err |-> "UnknownKey", key |-> key]
        ELSE IF ~hs[f.i].optional.some THEN [ok |-> FALSE, err |-> "NotOptional", key |-> key]
        ELSE IF ~parse_bool(value).ok THEN [ok |-> FALSE, err |-> "NotABoolean", key |-> key]
        ELSE [ok |-> TRUE, err |-> "", key |-> ""]

\* hook::validate_data (hook.rs:442-462) over the entries in the order
\* data.iter() gives them: the first entry that fails is returned
RECURSIVE validate_data(_, _, _)
validate_data(order, d, hs) ==
    IF order = <<>> THEN [ok |-> TRUE, err |-> "", key |-> ""]
    ELSE LET r == validate_entry(Head(order), d[Head(order)], hs)
         IN  IF ~r.ok THEN r ELSE validate_data(Tail(order), d, hs)

\* the orders HashMap::iter may give the keys of a map in
Orders(d) ==
    {q \in SeqsUpTo(DOMAIN d, Cardinality(DOMAIN d)) :
        /\ Len(q) = Cardinality(DOMAIN d)
        /\ \A i, j \in 1..Len(q) : i # j => q[i] # q[j]}

\* validate_data(&data, &hooks)
Apply_validate_data ==
    /\ fn_in.fn = "validate_data"
    /\ ~fn_out.done
    /\ \E order \in Orders(fn_in.context) :
        LET r == validate_data(order, fn_in.context, hooks)
        IN  fn_out' = [done |-> TRUE, ok |-> r.ok, val |-> FALSE, err |-> r.err, key |-> r.key]
    /\ UNCHANGED <<hooks, slots, run_as_user, engine, project, out_dir, slot_data, history, cli, fn_in>>

\* hook.rs:252-260 for one hook: where the loop puts it, if the call of
\* is_satisfied returns.  The call is made only for a hook that is enabled
classify(h, items, d) ==
    IF ~Hook_is_enabled(h, d) THEN [returns |-> TRUE, reason |-> "UserDisabled"]
    ELSE LET satisfied == is_satisfied_call(h.needs, items, d, {})
         IN  IF ~satisfied.returns THEN [returns |-> FALSE, reason |-> ""]
             ELSE IF satisfied.val THEN [returns |-> TRUE, reason |-> "Queued"]
             ELSE [returns |-> TRUE, reason |-> "FalseConditional"]

\* the loop of run_hooks_stream over the hooks (hook.rs:243-260): every hook
\* is classified, unless the call for one of them does not return
Apply_classify ==
    /\ fn_in.fn = "classify"
    /\ ~fn_out.done
    /\ fn_out.err = ""
    /\ LET items == Items(hooks, slots)
           cs == [i \in 1..Len(hooks) |-> classify(hooks[i], items, fn_in.context)]
       IN  fn_out' = IF \A i \in 1..Len(cs) : cs[i].returns
                     THEN [done |-> TRUE, ok |-> TRUE, val |-> FALSE, err |-> "",
                           reasons |-> [i \in 1..Len(cs) |-> cs[i].reason]]
                     ELSE [done |-> FALSE, ok |-> FALSE, val |-> FALSE,
                           err |-> "unbounded recursion", reasons |-> <<>>]
    /\ UNCHANGED <<hooks, slots, run_as_user, engine, project, out_dir, slot_data, history, cli, fn_in>>

FnNext ==
    \/ Apply_classify
    \/ Apply_evaluate_conditional
    \/ Apply_Templated_of
    \/ Apply_Hook_is_enabled
    \/ Apply_Slot_is_enabled
    \/ Apply_Config_validate
    \/ Apply_load_project
    \/ Apply_validate_data

SpecFn == FnInit /\ [][FnNext]_vars

----------------------------------------------------------------------------
(* What the properties speak about *)

IsDone(ev) == ev.type = "HookDone"
IsStarted(ev) == ev.type = "HookStarted"
IsFailed(ev) == ev.type = "HookDone" /\ ev.kind = "Failed"

\* the positions in the event stream of the HookDone / HookStarted of key k
DoneOf(k) == {i \in 1..Len(events) : IsDone(events[i]) /\ events[i].key = k}
StartedOf(k) == {i \in 1..Len(events) : IsStarted(events[i]) /\ events[i].key = k}

\* the position of the hook with key k in the manifest
DeclIndex(k) == CHOOSE i \in 1..Len(hooks) : hooks[i].key = k

Drained == pc = "closed"

WasSpawned(k) == \E i \in 1..Len(spawned) : spawned[i] = k

\* C1: abort on first failure.  Once a HookDone(Failed) has been emitted, no
\* further event is emitted and no process is running or spawned afterwards;
\* the collected results hold at most one Failed, and it is the last one.
C1_AbortOnFirstFailure ==
    /\ \A i \in 1..Len(events) : IsFailed(events[i]) => i = Len(events)
    /\ (\E i \in 1..Len(events) : IsFailed(events[i])) => running = {}
    /\ \A i \in 1..Len(hook_results) :
            hook_results[i].kind = "Failed" => i = Len(hook_results)

\* C2: declaration order is execution order.  The keys of the HookStarted
\* events, and the keys of the collected results, follow the order in which
\* the hooks are declared.
C2_DeclarationOrder ==
    /\ \A i, j \in 1..Len(events) :
            (i < j /\ IsStarted(events[i]) /\ IsStarted(events[j]))
                => DeclIndex(events[i].key) < DeclIndex(events[j].key)
    /\ \A i, j \in 1..Len(hook_results) :
            i < j => DeclIndex(hook_results[i].key) < DeclIndex(hook_results[j].key)

\* C3: event pairing.  No key has more than one HookDone; every HookDone(k)
\* comes right after HookStarted(k); a drained run without a failure has
\* exactly one HookStarted and one HookDone per declared hook, 2N events.
C3_EventPairing ==
    /\ \A i \in 1..Len(hooks) : Cardinality(DoneOf(hooks[i].key)) <= 1
    /\ \A i \in 1..Len(events) :
            IsDone(events[i]) =>
                /\ i > 1
                /\ IsStarted(events[i - 1])
                /\ events[i - 1].key = events[i].key
    /\ (Drained /\ ~\E i \in 1..Len(events) : IsFailed(events[i])) =>
            /\ Len(events) = 2 * Len(hooks)
            /\ \A i \in 1..Len(hooks) :
                    /\ Cardinality(StartedOf(hooks[i].key)) = 1
                    /\ Cardinality(DoneOf(hooks[i].key)) = 1

\* a drained run of at least two hooks, skipped and run, none failed
C3_Witness ==
    /\ Drained
    /\ Len(hooks) >= 2
    /\ Len(skipped_hooks) >= 1
    /\ Len(spawned) >= 1
    /\ ~\E i \in 1..Len(events) : IsFailed(events[i])

\* C4: sequential execution.  At most one hook process runs at any time, and
\* while one runs every hook started before it has its HookDone.
C4_Sequential ==
    /\ Cardinality(running) <= 1
    /\ \A k \in running :
            /\ Len(events) >= 1
            /\ events[Len(events)] = HookStarted(k)
            /\ \A i \in 1..(Len(events) - 1) :
                    IsStarted(events[i]) => DoneOf(events[i].key) # {}

\* a second process is running after the first one exited
C4_Witness ==
    /\ running # {}
    /\ Len(spawned) >= 2

\* C5: a hook with optional = {default: false} and no entry for its key in
\* the data is not enabled, no process is spawned for it, and the run reports
\* exactly one HookDone for it, Skipped(UserDisabled).
C5_OptionalDefaultOff ==
    \A i \in 1..Len(hooks) :
        LET h == hooks[i] IN
        (h.optional = SomeOpt(FALSE) /\ h.key \notin DOMAIN data) =>
            /\ ~Hook_is_enabled(h, data)
            /\ ~WasSpawned(h.key)
            /\ \A j \in DoneOf(h.key) :
                    events[j] = HookDone(h.key, "Skipped", "UserDisabled")
            /\ Drained => Cardinality(DoneOf(h.key)) = 1

\* a drained run with such a hook, and another hook that ran
C5_Witness ==
    /\ Drained
    /\ Len(spawned) >= 1
    /\ \E i \in 1..Len(hooks) :
            /\ hooks[i].optional = SomeOpt(FALSE)
            /\ hooks[i].key \notin DOMAIN data
            /\ DoneOf(hooks[i].key) # {}

\* C6: Hook.is_enabled is true when `optional` is unset, whatever the data
\* holds for the key; with `optional` set it is the override ("true" or
\* "false") the data holds for the key, and optional.default when the data
\* holds none.  An optional hook with default false and override "true",
\* without needs and `if` and with a command that exits 0, ends Completed.
C6_IsEnabled ==
    \A i \in 1..Len(hooks) :
        LET h == hooks[i] IN
        /\ ~h.optional.some => Hook_is_enabled(h, data)
        /\ (h.optional.some /\ h.key \notin DOMAIN data) =>
                (Hook_is_enabled(h, data) <=> h.optional.default)
        /\ (h.optional.some /\ h.key \in DOMAIN data /\ data[h.key] = sTrue) =>
                Hook_is_enabled(h, data)
        /\ (h.optional.some /\ h.key \in DOMAIN data /\ data[h.key] = sFalse) =>
                ~Hook_is_enabled(h, data)
        /\ ( /\ Drained
             /\ h.optional = SomeOpt(FALSE)
             /\ h.key \in DOMAIN data
             /\ data[h.key] = sTrue
             /\ h.needs = <<>>
             /\ ~h.if.some
             /\ h.command = <<Lit(sTrue)>> ) =>
                \E j \in DoneOf(h.key) : events[j] = HookDone(h.key, "Completed", "")

\* a drained run in which a hook with default false and override "true" completed
C6_Witness ==
    /\ Drained
    /\ \E i \in 1..Len(hooks) :
            /\ hooks[i].optional = SomeOpt(FALSE)
            /\ hooks[i].key \in DOMAIN data
            /\ data[hooks[i].key] = sTrue
            /\ \E j \in DoneOf(hooks[i].key) : events[j].kind = "Completed"

\* k names a slot whose value in the data is absent, "", "0" or "false" in
\* some letter case
FalsySlot(k) ==
    /\ \E i \in 1..Len(slots) : slots[i].key = k
    /\ \/ k \notin DOMAIN data
       \/ data[k] \in {sEmpty, sZero, sFalse, sFaLSE}

\* C7: an enabled hook with needs = [k], k a slot whose value is absent, "",
\* "0" or "false" in any letter case, ends Skipped without a process, whatever
\* its `if` is; its `if` and command are never the reason of an error.
C7_NeedsFalsySlot ==
    \A i \in 1..Len(hooks) :
        LET h == hooks[i] IN
        (Hook_is_enabled(h, data) /\ Len(h.needs) = 1 /\ FalsySlot(h.needs[1])) =>
            /\ ~WasSpawned(h.key)
            /\ \A j \in DoneOf(h.key) : events[j].kind = "Skipped"
            /\ ret.key # h.key
            /\ Drained => Cardinality(DoneOf(h.key)) = 1

\* a drained run that skipped such a hook although it has an `if`
C7_Witness ==
    /\ Drained
    /\ \E i \in 1..Len(hooks) :
            /\ Hook_is_enabled(hooks[i], data)
            /\ Len(hooks[i].needs) = 1
            /\ FalsySlot(hooks[i].needs[1])
            /\ hooks[i].if.some
            /\ \E j \in DoneOf(hooks[i].key) : events[j].kind = "Skipped"

\* the keys of the slots and hooks of the manifest
ItemKeys == {slots[i].key : i \in 1..Len(slots)} \cup {hooks[i].key : i \in 1..Len(hooks)}

NeedsUnknown(h) == \E n \in 1..Len(h.needs) : h.needs[n] \notin ItemKeys

\* C8: a hook whose needs name a key that is neither a slot nor a hook is
\* unsatisfied and reported Skipped: no process, no Failed result and no Err
\* for it, and every hook of the manifest still gets its result.
C8_NeedsUnknownKey ==
    \A i \in 1..Len(hooks) :
        LET h == hooks[i] IN
        NeedsUnknown(h) =>
            /\ ~is_satisfied(h.needs, Items(hooks, slots), data)
            /\ ~WasSpawned(h.key)
            /\ \A j \in DoneOf(h.key) : events[j].kind = "Skipped"
            /\ ret.key # h.key
            /\ Drained =>
                \A k \in 1..Len(hooks) : Cardinality(DoneOf(hooks[k].key)) = 1

\* a drained run that skipped such a hook and ran a hook declared after it
C8_Witness ==
    /\ Drained
    /\ \E i, k \in 1..Len(hooks) :
            /\ i < k
            /\ NeedsUnknown(hooks[i])
            /\ \E j \in DoneOf(hooks[i].key) : events[j].kind = "Skipped"
            /\ WasSpawned(hooks[k].key)

\* the reference: every key a needs list leads to, directly or through the
\* needs of known items, names a known item that is enabled
AllPrerequisitesEnabled(needs) ==
    LET items == Items(hooks, slots) IN
    needs = <<>> \/
    \A k \in NeedsWithin({needs[n] : n \in 1..Len(needs)}, items, Len(items)) :
        /\ find(items, k).some
        /\ Needy_is_enabled(items[find(items, k).i], data)

\* C9: for every slot and hook of an acyclic manifest is_satisfied is true
\* iff every direct or transitive prerequisite resolves to an enabled item
\* (manifest and data do not change in a run: compared when it is called);
\* an enabled hook is queued to run when it is and is skipped
\* (FalseConditional, no process) when it is not.
C9_IsSatisfied ==
    [](
        LET items == Items(hooks, slots) IN
        /\ (pc = "call" /\ Acyclic([hooks |-> hooks, slots |-> slots])) =>
            \A i \in 1..Len(items) :
                is_satisfied(items[i].needs, items, data)
                    <=> AllPrerequisitesEnabled(items[i].needs)
        /\ pc \notin {"call", "err"} =>
            \A i \in 1..Len(hooks) :
                LET h == hooks[i]
                    all == AllPrerequisitesEnabled(h.needs)
                IN
                Hook_is_enabled(h, data) =>
                    /\ all <=> \E j \in 1..Len(commands) : commands[j].key = h.key
                    /\ ~all =>
                            /\ \E j \in 1..Len(skipped_hooks) :
                                    /\ skipped_hooks[j].hook.key = h.key
                                    /\ skipped_hooks[j].reason = "FalseConditional"
                            /\ ~WasSpawned(h.key)
                            /\ \A j \in DoneOf(h.key) :
                                    events[j] = HookDone(h.key, "Skipped", "FalseConditional")
                            /\ Drained => DoneOf(h.key) # {}
    )

\* a drained run that skipped an enabled hook whose direct need is enabled
\* and whose transitive need is not
C9_Witness ==
    LET items == Items(hooks, slots) IN
    /\ Drained
    /\ \E i \in 1..Len(hooks) :
            /\ Hook_is_enabled(hooks[i], data)
            /\ Len(hooks[i].needs) = 1
            /\ find(items, hooks[i].needs[1]).some
            /\ Needy_is_enabled(items[find(items, hooks[i].needs[1]).i], data)
            /\ ~AllPrerequisitesEnabled(hooks[i].needs)
            /\ \E j \in DoneOf(hooks[i].key) : events[j].kind = "Skipped"

\* the manifest of C10: a, b needing a, c needing b, all enabled, without
\* `if`, with commands that render, are built and exit 0
IsChain ==
    /\ Len(hooks) = 3
    /\ hooks[1].needs = <<>>
    /\ hooks[2].needs = <<hooks[1].key>>
    /\ hooks[3].needs = <<hooks[2].key>>
    /\ \A i \in 1..3 :
            /\ Hook_is_enabled(hooks[i], data)
            /\ ~hooks[i].if.some
            /\ render_command(hooks[i], data).ok
            /\ run_as_user.some =>
                    cmd_as_user(render_command(hooks[i], data).command[1], run_as_user).ok
            /\ output(render_command(hooks[i], data).command).launched
            /\ success(output(render_command(hooks[i], data).command))

\* C10: hooks a, b (needs a) and c (needs b), enabled, without `if`, with
\* commands that exit 0: the run returns Completed for a, b, c in that order.
C10_Chain ==
    (IsChain /\ pc # "call") =>
        /\ pc # "err"
        /\ Drained =>
            /\ ret.kind = "Ok"
            /\ hook_results = [i \in 1..3 |-> HookDone(hooks[i].key, "Completed", "")]
            /\ spawned = [i \in 1..3 |-> hooks[i].key]

C10_Witness ==
    /\ IsChain
    /\ Drained
    /\ Len(hook_results) = 3

\* h4 is enabled and satisfied, its `if` is {{ hook_ran_<key of h1> }}, and
\* its command renders to a program that exits 0
GuardedBy(h4, h1) ==
    /\ h4.if = SomeIf(Var(hook_ran(h1.key)))
    /\ Hook_is_enabled(h4, data)
    /\ is_satisfied(h4.needs, Items(hooks, slots), data)
    /\ render_command(h4, data).ok
    /\ output(render_command(h4, data).command).launched
    /\ success(output(render_command(h4, data).command))

\* C11: an enabled, satisfied hook h4 with if = "{{ hook_ran_h1 }}" and a
\* command that exits 0 is Completed when h1 is declared before h4 and h1
\* ended Completed, and Skipped(FalseConditional) otherwise (h4 declared
\* before h1, or h1 skipped or failed); a drained run has one result for h4.
C11_HookRanGuard ==
    [](
        \A i4, i1 \in 1..Len(hooks) :
            LET h4 == hooks[i4]
                h1 == hooks[i1]
            IN
            GuardedBy(h4, h1) =>
                /\ \A j \in DoneOf(h4.key) :
                        events[j] =
                            IF /\ i1 < i4
                               /\ \E m \in DoneOf(h1.key) : m < j /\ events[m].kind = "Completed"
                            THEN HookDone(h4.key, "Completed", "")
                            ELSE HookDone(h4.key, "Skipped", "FalseConditional")
                /\ \A j \in DoneOf(h4.key), m \in DoneOf(h1.key) : i1 < i4 => m < j
                /\ Drained => Cardinality(DoneOf(h4.key)) = 1
    )

\* a drained run in which h4, declared after h1, completed because h1 did
C11_Witness ==
    /\ Drained
    /\ \E i4, i1 \in 1..Len(hooks) :
            /\ i1 < i4
            /\ GuardedBy(hooks[i4], hooks[i1])
            /\ \E j \in DoneOf(hooks[i4].key) : events[j].kind = "Completed"

\* a drained run in which h4, declared before h1, was skipped though h1 completed
C11_WitnessReordered ==
    /\ Drained
    /\ \E i4, i1 \in 1..Len(hooks) :
            /\ i4 < i1
            /\ GuardedBy(hooks[i4], hooks[i1])
            /\ \E j \in DoneOf(hooks[i4].key) : events[j].kind = "Skipped"
            /\ \E j \in DoneOf(hooks[i1].key) : events[j].kind = "Completed"

\* h is enabled and satisfied, and a token of its command fails to render
\* against the data
RenderFails(h) ==
    /\ \E t \in 1..Len(h.command) : ~one_off(h.command[t], data).ok
    /\ Hook_is_enabled(h, data)
    /\ is_satisfied(h.needs, Items(hooks, slots), data)

\* the run is over: run_hooks has returned
Returned == pc \in {"err", "closed"}

\* C12 as stated: when a command token of an enabled, satisfied hook h fails
\* to render, the run reports HookDone(h, Failed) in the event stream, after
\* the results of the hooks declared before h, and spawns no process for h
\* or for a hook declared after h.
C12_RenderFailureIsAnEvent ==
    \A i \in 1..Len(hooks) :
        (RenderFails(hooks[i]) /\ Returned) =>
            /\ \E j \in DoneOf(hooks[i].key) :
                    /\ events[j].kind = "Failed"
                    /\ \A k \in 1..(i - 1) : \E m \in DoneOf(hooks[k].key) : m < j
            /\ \A k \in i..Len(hooks) : ~WasSpawned(hooks[k].key)

\* C12, amended: when a command token of an enabled, satisfied hook h fails
\* to render, the stream is never constructed: the run never returns Ok, no
\* HookStarted or HookDone is emitted for h, for the hooks declared before
\* it or for those after it, no process is spawned for h or for a hook
\* declared after h, and the run returns an Err that names a hook.
C12_RenderFailureIsAnErr ==
    \A i \in 1..Len(hooks) :
        RenderFails(hooks[i]) =>
            /\ ret.kind # "Ok"
            /\ \A k \in 1..Len(hooks) :
                    StartedOf(hooks[k].key) = {} /\ DoneOf(hooks[k].key) = {}
            /\ \A k \in i..Len(hooks) : ~WasSpawned(hooks[k].key)
            /\ pc \in {"call", "err"}
            /\ pc = "err" =>
                    /\ ret.kind = "ErrorRenderingTemplate"
                    /\ \E k \in 1..Len(hooks) : hooks[k].key = ret.key

\* a run that returned, whose second hook's command failed to render while
\* the first hook's command was fine
C12_Witness ==
    /\ Returned
    /\ Len(hooks) >= 2
    /\ ~RenderFails(hooks[1])
    /\ Hook_is_enabled(hooks[1], data)
    /\ RenderFails(hooks[2])

\* the first hook in declaration order that is enabled and satisfied and
\* whose command fails to render
FirstRenderFailure ==
    CHOOSE i \in 1..Len(hooks) :
        /\ RenderFails(hooks[i])
        /\ \A j \in 1..(i - 1) : ~RenderFails(hooks[j])

DonePayloads == SelectSeq(events, IsDone)

\* h is enabled and satisfied, its command renders, and the system denies
\* run_as_user the program it names
SetupFails(h) ==
    /\ run_as_user.some
    /\ Hook_is_enabled(h, data)
    /\ is_satisfied(h.needs, Items(hooks, slots), data)
    /\ one_off(h.command[1], data).ok
    /\ one_off(h.command[1], data).val \in run_as_user.denied

\* the stream is constructed: no enabled, satisfied hook has a command that
\* fails to render or that cannot be built as run_as_user
Constructs ==
    \A i \in 1..Len(hooks) : ~RenderFails(hooks[i]) /\ ~SetupFails(hooks[i])

\* C14: when the stream is constructed run_hooks returns Ok and nothing
\* else: a command that exits non-zero, a command that cannot be launched
\* and a guard that cannot be evaluated are Failed results in the list; the
\* list is the HookDone payloads of the stream in stream order, without the
\* HookStarted events.
C14_RunHooksOk ==
    [](
        /\ hook_results = DonePayloads
        /\ \A i \in 1..Len(hook_results) : hook_results[i].type = "HookDone"
        /\ Constructs =>
                /\ ret.kind \in {"none", "Ok"}
                /\ Returned => (ret.kind = "Ok" /\ pc = "closed")
        /\ ret.kind = "Ok" =>
                \A i \in 1..Len(events) :
                    IsFailed(events[i]) => \E j \in 1..Len(hook_results) : hook_results[j] = events[i]
    )

\* run_hooks returned Ok with two Failed results, one of a guard and one of
\* a command
C14_Witness ==
    /\ ret.kind = "Ok"
    /\ \E i, j \in 1..Len(hook_results) :
            /\ hook_results[i].kind = "Failed"
            /\ hook_results[i].detail = "ConditionalFailed"
            /\ hook_results[j].kind = "Failed"
            /\ hook_results[j].detail \in {"CommandExited", "CommandLaunchFailed"}

\* run_hooks returned Ok with the result of a command that could not be launched
C14_WitnessLaunch ==
    /\ ret.kind = "Ok"
    /\ \E i \in 1..Len(hook_results) : hook_results[i].detail = "CommandLaunchFailed"

ReservedKeys == {"_project_name", "_output_name"}

\* the call of a method of Project that came last
LastCall == history[Len(history)]

\* C15: the context a method of Project hands to copy, fill or the hook
\* engine holds the project name under _project_name and the output name
\* under _output_name, also when the caller's data holds these keys with
\* other values, and every other entry of the caller's data unchanged; the
\* engine runs the hooks with that context as its data.
C15_ReservedKeys ==
    /\ \A i \in 1..Len(history) :
            LET h == history[i] IN
            h.passed_to # <<>> =>
                /\ DOMAIN h.context = DOMAIN slot_data \cup ReservedKeys
                /\ h.context["_project_name"] = get_name(project)
                /\ h.context["_output_name"] =
                        get_output_name([out_dir EXCEPT !.exists = h.existed])
                /\ \A k \in DOMAIN slot_data \ ReservedKeys : h.context[k] = slot_data[k]
    /\ \A i \in 1..Len(history) :
            history[i].fn \in {"copy_files", "render_templates", "run_hooks_stream", "run_hooks"}
                => history[i].passed_to # <<>>
    /\ (pc # "idle" /\ history # <<>>) => data = LastCall.context

\* a returned run of the hooks and a generate that filled, for a caller
\* whose data holds both reserved keys with values that are not the names
C15_Witness ==
    /\ ReservedKeys \subseteq DOMAIN slot_data
    /\ slot_data["_project_name"] # get_name(project)
    /\ Len(history) = 2
    /\ history[1].fn = "run_hooks"
    /\ history[1].ret.kind = "Ok"
    /\ history[2].fn = "generate"
    /\ history[2].passed_to = <<"copy", "fill">>

\* C16: Project::generate called with an out_dir that exists returns
\* AlreadyExists and leaves the output directory as it is; the config is
\* not loaded and nothing is handed to copy or fill.
C16_AlreadyExists ==
    [][(/\ Len(history') = Len(history) + 1
        /\ history'[Len(history')].fn = "generate"
        /\ out_dir.exists)
       => (/\ history'[Len(history')].ret.kind = "AlreadyExists"
           /\ ~history'[Len(history')].loaded
           /\ history'[Len(history')].passed_to = <<>>
           /\ out_dir' = out_dir)]_vars

\* generate has returned AlreadyExists for a directory that holds a file
C16_Witness ==
    /\ history # <<>>
    /\ LastCall.fn = "generate"
    /\ LastCall.existed
    /\ LastCall.ret.kind = "AlreadyExists"
    /\ out_dir.files = {"old"}

\* a call that ran the hooks and has returned
IsRun(h) == h.fn \in {"run_hooks", "run_hooks_stream"} /\ h.ret.kind # "none"

C17_Rollback ==
    (/\ cli \in {"exit0", "exit1"}
     /\ \/ \E i \in 1..Len(history) : history[i].ret.kind \in {"CopyError", "TemplateError"}
        \/ pc = "err"
        \/ LastEventFailed)
    => ~out_dir.exists

\* the failed runs that do end with the output directory removed: a copy
\* error, a fill error, an error constructing the stream
C17_RollbackOfSetup ==
    (/\ cli \in {"exit0", "exit1"}
     /\ \/ pc = "err"
        \/ \E i \in 1..Len(history) : history[i].ret.kind \in {"CopyError", "TemplateError"})
    => (~out_dir.exists /\ out_dir.files = {})

\* s is core with blanks before and after it
IsPadded(s, core) ==
    \E l, r \in 0..Len(s) : s = Spaces(l) \o core \o Spaces(r)

\* the result of evaluate_conditional, as the caller sees it
Returns(ok, val, err) == [done |-> TRUE, ok |-> ok, val |-> val, err |-> err]

\* C19: evaluate_conditional returns Ok(true) when `if` is absent, whatever
\* the context; otherwise InvalidTemplate when `if` does not render, Ok(true)
\* when the rendered text is "true" up to surrounding whitespace, Ok(false)
\* when it is "false" up to surrounding whitespace, and NotBoolean for every
\* other text ("True", "1", "lorem ipsum", "FaLSE", the empty text).
C19_EvaluateConditional ==
    (fn_in.fn = "evaluate_conditional" /\ fn_out.done) =>
        IF ~fn_in.if.some THEN fn_out = Returns(TRUE, TRUE, "")
        ELSE IF fn_in.if.t.var /\ fn_in.if.t.key \notin DOMAIN fn_in.context
        THEN fn_out = Returns(FALSE, FALSE, "InvalidTemplate")
        ELSE LET text == IF fn_in.if.t.var THEN fn_in.context[fn_in.if.t.key]
                         ELSE fn_in.if.t.text
             IN  IF IsPadded(text, sTrue) THEN fn_out = Returns(TRUE, TRUE, "")
                 ELSE IF IsPadded(text, sFalse) THEN fn_out = Returns(TRUE, FALSE, "")
                 ELSE fn_out = Returns(FALSE, FALSE, "NotBoolean")

\* evaluate_conditional has returned Ok(true) for a placeholder that renders
\* to "true" with a blank before and after it
C19_Witness ==
    /\ fn_in.fn = "evaluate_conditional"
    /\ fn_in.if = SomeIf(Var(FieldKey))
    /\ FieldKey \in DOMAIN fn_in.context
    /\ fn_in.context[FieldKey] = sPadTrue
    /\ fn_out = Returns(TRUE, TRUE, "")

\* evaluate_conditional has returned NotBoolean for "True"
C19_WitnessNotBoolean ==
    /\ fn_in.fn = "evaluate_conditional"
    /\ fn_in.if = SomeIf(Lit(sTrueCap))
    /\ fn_out = Returns(FALSE, FALSE, "NotBoolean")

\* "false" in some letter case
AnyCaseFalse ==
    {<<f, a, l, s, e>> : f \in {"f", "F"}, a \in {"a", "A"}, l \in {"l", "L"},
                         s \in {"s", "S"}, e \in {"e", "E"}}

\* C20: Slot.is_enabled is false exactly when the data holds no value for
\* the slot's key or holds "", "0" or "false" in some letter case; it is
\* true for every other value ("00", "no", " ", "0.0", " false"), whatever
\* the slot's type.
C20_SlotIsEnabled ==
    (fn_in.fn = "Slot_is_enabled" /\ fn_out.done) =>
        LET k == SlotKeys[1]
            falsy == \/ k \notin DOMAIN fn_in.context
                     \/ fn_in.context[k] = <<>>
                     \/ fn_in.context[k] = <<"0">>
                     \/ fn_in.context[k] \in AnyCaseFalse
        IN  fn_out.val = ~falsy

\* Slot.is_enabled has returned true for the value " " of a Boolean slot
C20_Witness ==
    /\ fn_in.fn = "Slot_is_enabled"
    /\ fn_in.type = "Boolean"
    /\ SlotKeys[1] \in DOMAIN fn_in.context
    /\ fn_in.context[SlotKeys[1]] = <<" ">>
    /\ fn_out.done
    /\ fn_out.val

\* Slot.is_enabled has returned false for "FaLSE"
C20_WitnessFalse ==
    /\ fn_in.fn = "Slot_is_enabled"
    /\ SlotKeys[1] \in DOMAIN fn_in.context
    /\ fn_in.context[SlotKeys[1]] = sFaLSE
    /\ fn_out.done
    /\ ~fn_out.val

\* the keys of the slots and of the hooks of the manifest, slots first
AllKeys == [i \in 1..Len(slots) |-> slots[i].key] \o [i \in 1..Len(hooks) |-> hooks[i].key]

\* two of the keys of the manifest are the same
SomeKeyTwice == \E i, j \in 1..Len(AllKeys) : i # j /\ AllKeys[i] = AllKeys[j]

\* C21: Config::validate returns Err(DuplicateKey) exactly when some key is
\* used by a slot and a hook, by two hooks or by two slots, and Ok(()) exactly
\* when the keys of the slots and hooks together are pairwise distinct; a
\* manifest that load_project returned Ok for has pairwise distinct keys.
C21_ConfigValidate ==
    /\ (fn_in.fn = "Config_validate" /\ fn_out.done) =>
            /\ (fn_out.err = "DuplicateKey") = SomeKeyTwice
            /\ fn_out.ok = ~SomeKeyTwice
    /\ (fn_in.fn = "load_project" /\ fn_out.done /\ fn_out.ok) => ~SomeKeyTwice

\* Config::validate has refused a manifest whose only repeated key is the
\* key of two slots
C21_Witness ==
    /\ fn_in.fn = "Config_validate"
    /\ fn_out.done
    /\ fn_out.err = "DuplicateKey"
    /\ Len(slots) = 2
    /\ slots[1].key = slots[2].key
    /\ \A i \in 1..Len(hooks) : hooks[i].key # slots[1].key
    /\ \A i, j \in 1..Len(hooks) : i # j => hooks[i].key # hooks[j].key

\* load_project has returned a Project for a manifest of two hooks and a slot
C21_WitnessLoaded ==
    /\ fn_in.fn = "load_project"
    /\ fn_out.done
    /\ fn_out.ok
    /\ Len(hooks) = 2
    /\ Len(slots) = 1

\* the key names a hook of the manifest; it names one with `optional` set
Declared(k) == \E i \in 1..Len(hooks) : hooks[i].key = k
DeclaredOptional(k) == \E i \in 1..Len(hooks) : hooks[i].key = k /\ hooks[i].optional.some

\* C22: hook::validate_data returns Ok(()) exactly when every key of the data
\* names a declared hook with `optional` set and holds "true" or "false";
\* otherwise it returns UnknownKey for a key that names no hook, NotOptional
\* for a key that names a hook without `optional`, or NotABoolean for a key
\* whose value is no boolean; the call leaves the data and the hooks as they
\* were.
C22_ValidateData ==
    [][(fn_in.fn = "validate_data" /\ fn_out'.done) =>
        LET d == fn_in.context
            r == fn_out'
        IN  /\ r.ok = \A k \in DOMAIN d : DeclaredOptional(k) /\ d[k] \in {sTrue, sFalse}
            /\ ~r.ok =>
                /\ r.key \in DOMAIN d
                /\ r.err \in {"UnknownKey", "NotOptional", "NotABoolean"}
                /\ r.err = "UnknownKey" => ~Declared(r.key)
                /\ r.err = "NotOptional" => Declared(r.key) /\ ~DeclaredOptional(r.key)
                /\ r.err = "NotABoolean" => d[r.key] \notin {sTrue, sFalse}
            /\ fn_in' = fn_in
            /\ hooks' = hooks]_vars

\* validate_data has returned NotABoolean for " true " given for an optional
\* hook, next to an entry that is in order
C22_Witness ==
    /\ fn_in.fn = "validate_data"
    /\ fn_out.done
    /\ fn_out.err = "NotABoolean"
    /\ DOMAIN fn_in.context = {HookKeys[1], HookKeys[2]}
    /\ fn_in.context[fn_out.key] = sPadTrue
    /\ DeclaredOptional(HookKeys[1])
    /\ DeclaredOptional(HookKeys[2])

\* validate_data has returned NotOptional for a key whose value is no
\* boolean either
C22_WitnessNotOptional ==
    /\ fn_in.fn = "validate_data"
    /\ fn_out.done
    /\ fn_out.err = "NotOptional"
    /\ fn_in.context[fn_out.key] = sTrueCap

\* validate_data has returned Ok(()) for two entries
C22_WitnessOk ==
    /\ fn_in.fn = "validate_data"
    /\ fn_out.done
    /\ fn_out.ok
    /\ DOMAIN fn_in.context = {HookKeys[1], HookKeys[2]}

\* the calls of generate in which template::fill returned its vector, and
\* the calls of render_templates that returned it
Filled(fn) ==
    {i \in 1..Len(history) :
        history[i].fn = fn /\ history[i].ret.kind \in {"Ok", "FileError"}}

\* the template file renders, contents and name, in the context
Renders(t, context) ==
    /\ t.contents.var => t.contents.key \in DOMAIN context
    /\ t.name.var => t.name.key \in DOMAIN context

\* C23: template::fill returns one entry for every template file of the
\* project, an error for each file that does not render also when a file
\* before it failed and files after it were written; generate returns
\* FileError exactly when some entry is an error and then carries one of
\* the errors, and Ok with every file exactly when no entry is.
C23_FillGoesOn ==
    /\ \A c \in Filled("render_templates") :
        LET entries == history[c].ret.files
            n == Len(project.templates)
        IN  /\ Len(entries) = n
            /\ \A t \in 1..n : \E i \in 1..n : entries[i].file = t
            /\ \A i \in 1..n :
                    ~Renders(project.templates[entries[i].file], history[c].context)
                        => ~entries[i].ok
    /\ \A c \in Filled("generate") :
        LET entries == history[c].ret.entries
            files == history[c].ret.files
            failed == \E i \in 1..Len(entries) : ~entries[i].ok
        IN  /\ Len(entries) = Len(project.templates)
            /\ (history[c].ret.kind = "FileError") = failed
            /\ (history[c].ret.kind = "Ok") = ~failed
            /\ history[c].ret.kind = "Ok" => files = entries
            /\ history[c].ret.kind = "FileError" =>
                    /\ Len(files) = 1
                    /\ ~files[1].ok
                    /\ \E i \in 1..Len(entries) : entries[i] = files[1]

\* render_templates has returned an error for the first file and a rendered
\* file for the second
C23_Witness ==
    \E c \in Filled("render_templates") :
        LET entries == history[c].ret.files
        IN  /\ Len(entries) = 2
            /\ ~entries[1].ok
            /\ entries[2].ok
            /\ "rendered" \in out_dir.files

\* generate has returned FileError although a file was rendered
C23_WitnessGenerate ==
    \E c \in Filled("generate") :
        /\ history[c].ret.kind = "FileError"
        /\ \E i \in 1..Len(history[c].ret.entries) : history[c].ret.entries[i].ok

\* generate has returned Ok with two rendered files
C23_WitnessOk ==
    \E c \in Filled("generate") :
        /\ history[c].ret.kind = "Ok"
        /\ Len(history[c].ret.files) = 2

\* the context the guard of the hook the second loop stands at is evaluated in
GuardContext == cond_context(data, hooks, ran_hooks)

\* a HookDone with a Completed result has been emitted for key k
HasCompleted(k) == \E j \in DoneOf(k) : events[j].kind = "Completed"

\* the context holds hook_ran_<k> for every declared hook, "true" for the
\* hooks that have completed and "false" for the others
FlagsFollowEvents ==
    \A i \in 1..Len(hooks) :
        get(GuardContext, hook_ran(hooks[i].key))
            = Some(IF HasCompleted(hooks[i].key) THEN sTrue ELSE sFalse)

\* C24: whenever a guard is evaluated its context holds hook_ran_<k> for
\* every declared hook (skipped ones, later ones and the hook itself
\* included), "true" exactly for the hooks a HookDone(Completed) was emitted
\* for earlier in the run and "false" for the others, so never "true" for a
\* hook that failed or was skipped; a flag that is "true" stays "true".
C24_HookRanFlags ==
    [][/\ pc' = "guard" => FlagsFollowEvents'
       /\ \A i \in 1..Len(hooks) :
            get(GuardContext, hook_ran(hooks[i].key)) = Some(sTrue)
                => get(GuardContext', hook_ran(hooks[i].key)) = Some(sTrue)]_vars

\* the guard of a hook is about to be evaluated after one hook completed
\* and another failed or was skipped
C24_Witness ==
    /\ pc = "guard"
    /\ commands[ci].if.some
    /\ \E i \in 1..Len(hooks) : HasCompleted(hooks[i].key)
    /\ \E i \in 1..Len(hooks) :
            \E j \in DoneOf(hooks[i].key) : events[j].kind \in {"Failed", "Skipped"}
    /\ FlagsFollowEvents

\* the stream has been constructed
Constructed == pc \notin {"call", "err"}

\* the hook is in skipped_hooks with the reason, and is not in commands
SkippedFor(h, reason) ==
    /\ \E j \in 1..Len(skipped_hooks) :
            skipped_hooks[j].hook.key = h.key /\ skipped_hooks[j].reason = reason
    /\ \A j \in 1..Len(commands) : commands[j].key # h.key

\* the hook needs itself, directly or through other items
NeedsItself(h) ==
    LET items == Items(hooks, slots)
    IN  h.key \in NeedsWithin({h.needs[n] : n \in 1..Len(h.needs)}, items, Len(items))

\* C25: in a run whose stream is constructed, a hook that is not enabled is
\* reported Skipped(UserDisabled) and nothing else, also when its needs are
\* unmet, name no item or lead back to itself and when its `if` or command
\* does not render; an enabled hook whose needs are not satisfied is
\* reported Skipped(FalseConditional) and nothing else.  Neither makes the
\* constructor fail on its command, has its guard evaluated or is spawned.
C25_SkipReasons ==
    [](
        \A i \in 1..Len(hooks) :
            LET h == hooks[i]
                reason == IF ~Hook_is_enabled(h, data) THEN "UserDisabled"
                          ELSE IF ~AllPrerequisitesEnabled(h.needs) THEN "FalseConditional"
                          ELSE ""
            IN  reason # "" =>
                    /\ pc = "err" => ret.key # h.key
                    /\ Constructed => SkippedFor(h, reason)
                    /\ \A j \in DoneOf(h.key) : events[j] = HookDone(h.key, "Skipped", reason)
                    /\ ~WasSpawned(h.key)
                    /\ Drained => Cardinality(DoneOf(h.key)) = 1
    )

\* a drained run reported Skipped(UserDisabled) for a hook that is not
\* enabled and needs itself
C25_Witness ==
    /\ Drained
    /\ \E i \in 1..Len(hooks) :
            /\ ~Hook_is_enabled(hooks[i], data)
            /\ NeedsItself(hooks[i])
            /\ \E j \in DoneOf(hooks[i].key) :
                    events[j] = HookDone(hooks[i].key, "Skipped", "UserDisabled")

\* a drained run reported Skipped(UserDisabled) for a hook that is not
\* enabled and whose command does not render
C25_WitnessCommand ==
    /\ Drained
    /\ \E i \in 1..Len(hooks) :
            /\ ~Hook_is_enabled(hooks[i], data)
            /\ ~render_command(hooks[i], data).ok
            /\ \E j \in DoneOf(hooks[i].key) :
                    events[j] = HookDone(hooks[i].key, "Skipped", "UserDisabled")

\* a drained run reported Skipped(FalseConditional) for an enabled hook
\* with unmet needs whose command does not render
C25_WitnessUnsatisfied ==
    /\ Drained
    /\ \E i \in 1..Len(hooks) :
            /\ Hook_is_enabled(hooks[i], data)
            /\ ~render_command(hooks[i], data).ok
            /\ \E j \in DoneOf(hooks[i].key) :
                    events[j] = HookDone(hooks[i].key, "Skipped", "FalseConditional")

\* a HookDone with a Skipped result has been emitted
SomeSkipped == \E j \in 1..Len(events) : IsDone(events[j]) /\ events[j].kind = "Skipped"

\* the hook has its HookStarted and, after it, its HookDone
HasPair(k) ==
    \E a \in StartedOf(k) : \E b \in DoneOf(k) : a < b

\* C26: a skip does not end the run.  After a HookDone(Skipped), for either
\* reason and also for a guard that evaluated to false, the stream does not
\* end before every hook of the manifest has had its HookStarted and its
\* HookDone.
C26_SkipsNeverAbort ==
    (SomeSkipped /\ pc \in {"end", "closed"}) =>
        \A i \in 1..Len(hooks) : HasPair(hooks[i].key)

\* a drained run in which a hook was skipped on its false guard and a hook
\* yielded after it completed
C26_Witness ==
    /\ Drained
    /\ \E j \in 1..Len(events) :
            /\ events[j].kind = "Skipped"
            /\ \E c \in 1..Len(commands) : commands[c].key = events[j].key
            /\ \E l \in (j + 1)..Len(events) : events[l].kind = "Completed"

\* a drained run in which a hook that is not enabled was skipped and a hook
\* after it completed
C26_WitnessDisabled ==
    /\ Drained
    /\ \E j \in 1..Len(events) :
            /\ events[j].kind = "Skipped"
            /\ events[j].detail = "UserDisabled"
            /\ \E l \in (j + 1)..Len(events) : events[l].kind = "Completed"

\* the keys of the hooks that had completed when HookStarted(k) was yielded,
\* in the order they completed
RanBefore(k) ==
    LET start == CHOOSE a \in StartedOf(k) : TRUE
        done == SelectSeq(SubSeq(events, 1, start - 1), LAMBDA ev : ev.kind = "Completed")
    IN  [j \in 1..Len(done) |-> done[j].key]

\* how often the command of the hook was handed to the operating system
Attempts(k) == Cardinality({a \in 1..Len(spawned) : spawned[a] = k})

\* C27: the command of a hook is handed to the operating system only if the
\* hook is enabled, its needs are satisfied, every token of its command
\* rendered and its guard evaluated to Ok(true) in the context of the hooks
\* completed before it; a hook whose result is Skipped or
\* Failed(ConditionalFailed) was never spawned, and a hook whose result is
\* Completed, CommandExited or CommandLaunchFailed was spawned exactly once.
C27_SpawnPrecondition ==
    [](
        \A i \in 1..Len(hooks) :
            LET h == hooks[i] IN
            /\ WasSpawned(h.key) =>
                    /\ Hook_is_enabled(h, data)
                    /\ AllPrerequisitesEnabled(h.needs)
                    /\ render_command(h, data).ok
                    /\ StartedOf(h.key) # {}
                    /\ LET guard == evaluate_conditional(
                                        h, cond_context(data, hooks, RanBefore(h.key)))
                       IN  guard.ok /\ guard.val
            /\ \A j \in DoneOf(h.key) :
                    /\ (events[j].kind = "Skipped" \/ events[j].detail = "ConditionalFailed")
                            => Attempts(h.key) = 0
                    /\ (events[j].kind = "Completed"
                            \/ events[j].detail \in {"CommandExited", "CommandLaunchFailed"})
                            => Attempts(h.key) = 1
    )

\* a drained run spawned a hook that has needs and a guard, after the hook
\* it needs
C27_Witness ==
    /\ Drained
    /\ \E i \in 1..Len(hooks) :
            /\ hooks[i].if.some
            /\ hooks[i].needs # <<>>
            /\ Attempts(hooks[i].key) = 1

\* a drained run in which a command could not be launched
C27_WitnessLaunchFailed ==
    /\ Drained
    /\ \E j \in 1..Len(events) :
            events[j].detail = "CommandLaunchFailed" /\ Attempts(events[j].key) = 1

\* a drained run in which a guard could not be evaluated
C27_WitnessConditionalFailed ==
    /\ Drained
    /\ \E j \in 1..Len(events) :
            events[j].detail = "ConditionalFailed" /\ Attempts(events[j].key) = 0

\* the command of the hook as the constructor rendered it
RenderedCommand(k) == commands[CHOOSE c \in 1..Len(commands) : commands[c].key = k].command

\* C28: the result of a hook whose command was handed to the operating
\* system is Failed(CommandLaunchFailed) when the launch failed,
\* Failed(CommandExited) with the exit code of the process and all of its
\* stdout and stderr when it exited with a non-zero code (or was ended by a
\* signal, reported with code 1), Completed with all of its stdout and
\* stderr when it exited with 0, and nothing else.
C28_OutcomeMapping ==
    \A j \in 1..Len(events) :
        (IsDone(events[j]) /\ WasSpawned(events[j].key)) =>
            LET k == events[j].key
                o == output(RenderedCommand(k))
            IN  IF ~o.launched
                THEN events[j] = HookDone(k, "Failed", "CommandLaunchFailed")
                ELSE IF o.code.some /\ o.code.val = 0
                THEN events[j] = HookDoneOutput(k, "Completed", "", 0, o.stdout, o.stderr)
                ELSE IF o.code.some
                THEN events[j] = HookDoneOutput(k, "Failed", "CommandExited",
                                                o.code.val, o.stdout, o.stderr)
                ELSE /\ events[j].kind = "Failed"
                     /\ events[j].detail = "CommandExited"
                     /\ events[j].stdout = o.stdout
                     /\ events[j].stderr = o.stderr

\* a run has reported Completed with the output of one process and
\* CommandExited with code 2 and the output of another
C28_Witness ==
    /\ \E j \in 1..Len(events) :
            /\ events[j].kind = "Completed"
            /\ events[j].stdout = sLoremIpsum
            /\ events[j].stderr = sOne
    /\ \E j \in 1..Len(events) :
            events[j] = HookDoneOutput(events[j].key, "Failed", "CommandExited",
                                       2, sLorem, sLoremIpsum)

\* a run has reported CommandLaunchFailed for a hook run in a directory
\* that does not exist
C28_WitnessLaunchFailed ==
    /\ ~out_dir.exists
    /\ \E j \in 1..Len(events) :
            events[j].detail = "CommandLaunchFailed" /\ WasSpawned(events[j].key)

\* a run has reported CommandExited for a process that a signal ended
C28_WitnessSignalled ==
    \E j \in 1..Len(events) :
        /\ events[j].detail = "CommandExited"
        /\ events[j].stdout = sOne
        /\ events[j].exit_code = 1

\* the hook is queued, has a guard, and its command does not render
GuardedUnrenderable(h) ==
    /\ h.if.some
    /\ RenderFails(h)
    /\ Hook_is_enabled(h, data)
    /\ AllPrerequisitesEnabled(h.needs)

\* C29: the commands are rendered before any guard is evaluated.  When a
\* guard is evaluated the command of its hook is the rendered one; a run
\* with an enabled, satisfied hook whose command does not render returns the
\* render error whatever the guard of the hook would give, and reports
\* neither a skip nor a failed guard for it.
C29_RenderBeforeGuard ==
    /\ pc = "guard" =>
            \E i \in 1..Len(hooks) :
                /\ hooks[i].key = commands[ci].key
                /\ render_command(hooks[i], data).ok
                /\ commands[ci].command = render_command(hooks[i], data).command
    /\ pc # "call" =>
            \A i \in 1..Len(hooks) :
                GuardedUnrenderable(hooks[i]) =>
                    /\ pc = "err"
                    /\ ret.kind = "ErrorRenderingTemplate"
                    /\ events = <<>>

\* a run returned the render error for a hook whose guard is the literal
\* false
C29_Witness ==
    /\ pc = "err"
    /\ \E i \in 1..Len(hooks) :
            /\ GuardedUnrenderable(hooks[i])
            /\ hooks[i].if = SomeIf(Lit(sFalse))
            /\ ret = [kind |-> "ErrorRenderingTemplate", key |-> hooks[i].key]

\* a run returned the render error for a hook whose guard cannot be
\* evaluated
C29_WitnessFailingGuard ==
    /\ pc = "err"
    /\ \E i \in 1..Len(hooks) :
            /\ GuardedUnrenderable(hooks[i])
            /\ ~evaluate_conditional(hooks[i], cond_context(data, hooks, <<>>)).ok
            /\ ret = [kind |-> "ErrorRenderingTemplate", key |-> hooks[i].key]

\* the hook is queued and a token of its command is the flag of a declared
\* hook, which the caller's data does not hold
CommandReadsFlag(h) ==
    /\ \E t \in 1..Len(h.command) :
            /\ h.command[t].var
            /\ h.command[t].key \in {hook_ran(hooks[i].key) : i \in 1..Len(hooks)}
            /\ h.command[t].key \notin DOMAIN data
    /\ Hook_is_enabled(h, data)
    /\ AllPrerequisitesEnabled(h.needs)

\* a run of the hooks is under way or has returned
InRun == pc \notin {"idle", "call"}

\* C30 as claimed: the command is rendered in the context of the guards, so
\* a command token "{{ hook_ran_a }}" of a queued hook renders and the run
\* does not return the render error for it.
C30_CommandSeesFlags ==
    \A i \in 1..Len(hooks) :
        (InRun /\ CommandReadsFlag(hooks[i])) =>
            ~(pc = "err" /\ ret.kind = "ErrorRenderingTemplate")

\* C30, amended: the commands are rendered against the data the engine was
\* called with and nothing else; the hook_ran_<key> flags are in the context
\* of the guards only, so a run with a queued hook whose command has the
\* token "{{ hook_ran_a }}" returns Err(ErrorRenderingTemplate) and yields
\* no event, unless the data itself holds that key.
C30_CommandSeesDataOnly ==
    /\ (InRun /\ pc # "err") =>
            \A j \in 1..Len(commands) :
                \E i \in 1..Len(hooks) :
                    /\ hooks[i].key = commands[j].key
                    /\ commands[j].command =
                            [t \in 1..Len(hooks[i].command) |->
                                one_off(hooks[i].command[t], data).val]
    /\ \A i \in 1..Len(hooks) :
            (InRun /\ CommandReadsFlag(hooks[i])) =>
                /\ pc = "err"
                /\ ret.kind = "ErrorRenderingTemplate"
                /\ events = <<>>

\* a run returned the render error for the second hook, whose command is
\* the flag of the first
C30_Witness ==
    /\ pc = "err"
    /\ Len(hooks) = 2
    /\ hooks[2].command = <<Var(hook_ran(hooks[1].key))>>
    /\ CommandReadsFlag(hooks[2])
    /\ ret = [kind |-> "ErrorRenderingTemplate", key |-> hooks[2].key]

\* the first hook in declaration order that is enabled and satisfied and
\* whose command cannot be built as run_as_user
FirstSetupFailure ==
    CHOOSE i \in 1..Len(hooks) :
        /\ SetupFails(hooks[i])
        /\ \A j \in 1..(i - 1) : ~SetupFails(hooks[j])

\* C31: SetupFailed.  When run_as_user is supplied and the command of an
\* enabled, satisfied hook cannot be built as that user (every command
\* having rendered), run_hooks_stream returns Err(SetupFailed(h)) naming the
\* first such hook, no event is emitted and no process is spawned for any
\* hook; the error is returned for no other reason: never without
\* run_as_user, and never for a hook that is disabled or unsatisfied.
C31_SetupFailed ==
    /\ ( /\ pc # "call"
         /\ \E i \in 1..Len(hooks) : SetupFails(hooks[i])
         /\ \A i \in 1..Len(hooks) : ~RenderFails(hooks[i]) ) =>
            /\ pc = "err"
            /\ ret = [kind |-> "SetupFailed", key |-> hooks[FirstSetupFailure].key]
            /\ events = <<>>
            /\ hook_results = <<>>
            /\ spawned = <<>>
            /\ running = {}
    /\ ret.kind = "SetupFailed" =>
            /\ run_as_user.some
            /\ \E i \in 1..Len(hooks) : hooks[i].key = ret.key /\ SetupFails(hooks[i])
    /\ (\A i \in 1..Len(hooks) : ~SetupFails(hooks[i])) => ret.kind # "SetupFailed"

\* the run returned SetupFailed for the second hook, the command of the
\* first having been built
C31_Witness ==
    /\ pc = "err"
    /\ ret.kind = "SetupFailed"
    /\ Len(hooks) >= 2
    /\ ret.key = hooks[2].key
    /\ Hook_is_enabled(hooks[1], data)
    /\ render_command(hooks[1], data).command[1] \notin run_as_user.denied

\* the run returned SetupFailed for the second hook; the first names a
\* denied program and is not enabled
C31_WitnessDisabled ==
    /\ pc = "err"
    /\ ret.kind = "SetupFailed"
    /\ Len(hooks) >= 2
    /\ ret.key = hooks[2].key
    /\ ~Hook_is_enabled(hooks[1], data)
    /\ render_command(hooks[1], data).command[1] \in run_as_user.denied

\* a drained run as a user who is denied the program of a hook that is not
\* enabled: the hook was skipped
C31_WitnessNoFailure ==
    /\ Drained
    /\ run_as_user.some
    /\ \E i \in 1..Len(hooks) :
            /\ ~Hook_is_enabled(hooks[i], data)
            /\ render_command(hooks[i], data).command[1] \in run_as_user.denied
            /\ DoneOf(hooks[i].key) # {}

\* the classification of run_hooks_stream was applied on its own and
\* returned, or went into a recursion without end
Classified == fn_in.fn = "classify" /\ fn_out.done
Recursing == fn_in.fn = "classify" /\ fn_out.err = "unbounded recursion"

\* the keys a needs list leads to, directly or through the needs of the
\* items they name
LeadsTo(needs) ==
    LET items == Items(hooks, slots)
    IN  NeedsWithin({needs[j] : j \in 1..Len(needs)}, items, Len(items))

\* k names an item that needs itself, directly or through other items
OnCycle(k) ==
    LET items == Items(hooks, slots)
        f == find(items, k)
    IN  f.some /\ k \in LeadsTo(items[f.i].needs)

\* the needs of the hook lead into a cycle of known items
LeadsIntoCycle(h) == \E k \in LeadsTo(h.needs) : OnCycle(k)

\* k is a need that is false and leads into no cycle: it names no item, or
\* an item that is not enabled or has such a need itself
EndsCheck(k) ==
    LET items == Items(hooks, slots)
        f == find(items, k)
    IN  \/ ~f.some
        \/ /\ \A x \in LeadsTo(<<k>>) : ~OnCycle(x)
           /\ \E x \in LeadsTo(<<k>>) :
                    \/ ~find(items, x).some
                    \/ ~Needy_is_enabled(items[find(items, x).i], fn_in.context)

\* C32 as stated: for an enabled hook whose needs lead into a cycle of known
\* items the satisfaction check never returns.
C32_CycleNeverReturns ==
    (fn_in.fn = "classify" /\ (fn_out.done \/ fn_out.err # "")) =>
        ((\E i \in 1..Len(hooks) :
                /\ Hook_is_enabled(hooks[i], fn_in.context)
                /\ LeadsIntoCycle(hooks[i]))
            => Recursing)

\* C32, amended: the satisfaction check returns for every acyclic manifest,
\* with the value of is_satisfied.  For an enabled hook whose needs lead
\* into a cycle of known items it never returns, also when an item on the
\* cycle is not enabled, provided no key on the way names no item or an item
\* off the cycles that is not enabled (such a need is false, and
\* Iterator::all stops at it without looking at the needs after it).  The
\* check fails to return for no other reason, and a hook that is not
\* enabled is classified UserDisabled without the check, on a cycle or not.
C32_NeedsRecursion ==
    (fn_in.fn = "classify" /\ (fn_out.done \/ fn_out.err # "")) =>
        LET items == Items(hooks, slots) IN
        /\ Classified \/ Recursing
        /\ Acyclic([hooks |-> hooks, slots |-> slots]) =>
                /\ Classified
                /\ \A i \in 1..Len(hooks) :
                        fn_out.reasons[i] = "Queued" <=>
                            /\ Hook_is_enabled(hooks[i], fn_in.context)
                            /\ is_satisfied(hooks[i].needs, items, fn_in.context)
        /\ (\E i \in 1..Len(hooks) :
                /\ Hook_is_enabled(hooks[i], fn_in.context)
                /\ LeadsIntoCycle(hooks[i])
                /\ \A k \in LeadsTo(hooks[i].needs) : ~EndsCheck(k))
                => Recursing
        /\ Recursing =>
                \E i \in 1..Len(hooks) :
                    /\ Hook_is_enabled(hooks[i], fn_in.context)
                    /\ LeadsIntoCycle(hooks[i])
        /\ Classified =>
                \A i \in 1..Len(hooks) :
                    ~Hook_is_enabled(hooks[i], fn_in.context)
                        => fn_out.reasons[i] = "UserDisabled"

\* the check did not return for an enabled hook that needs the second hook,
\* which needs the first and is not enabled
C32_Witness ==
    /\ Recursing
    /\ Len(hooks) = 2
    /\ Hook_is_enabled(hooks[1], fn_in.context)
    /\ hooks[1].needs = <<hooks[2].key>>
    /\ ~Hook_is_enabled(hooks[2], fn_in.context)
    /\ hooks[2].needs = <<hooks[1].key>>

\* the classification returned UserDisabled for a hook that needs itself
C32_WitnessDisabled ==
    /\ Classified
    /\ \E i \in 1..Len(hooks) :
            /\ OnCycle(hooks[i].key)
            /\ fn_out.reasons[i] = "UserDisabled"

\* the classification returned FalseConditional for an enabled hook whose
\* needs name a key of no item and then a hook that needs itself
C32_WitnessReturns ==
    /\ Classified
    /\ \E i \in 1..Len(hooks) :
            /\ Hook_is_enabled(hooks[i], fn_in.context)
            /\ LeadsIntoCycle(hooks[i])
            /\ fn_out.reasons[i] = "FalseConditional"

\* the hooks that come after the hook at ci in the second loop of the stream
LaterInStream == {commands[j].key : j \in (ci + 1)..Len(commands)}

\* C33: stream completion.  When every spawned process exits and the
\* consumer keeps polling, a constructed stream ends, after at most two
\* events per hook, and run_hooks returns.  There is no timeout and no
\* cancellation: while the process of a hook runs the hook has no HookDone
\* and the hooks after it have no event, and the only step the run can take
\* is the exit of that process, which brings the HookDone of that hook.
C33_StreamCompletion ==
    /\ [](Len(events) <= 2 * Len(hooks))
    /\ <>Returned
    /\ [](pc \notin {"call", "err"} => <>Drained)
    /\ [](\A k \in running :
            /\ pc = "await"
            /\ k = commands[ci].key
            /\ DoneOf(k) = {}
            /\ \A l \in LaterInStream : StartedOf(l) = {} /\ DoneOf(l) = {})
    /\ [][running # {} =>
            /\ running' = {}
            /\ Len(events') = Len(events) + 1
            /\ IsDone(events'[Len(events')])
            /\ events'[Len(events')].key \in running]_vars

\* a process is running, a hook comes after it in the stream, and a hook
\* before it has completed
C33_Witness ==
    /\ running # {}
    /\ LaterInStream # {}
    /\ ran_hooks # <<>>

\* the keys of the hook_ran flags of the declared hooks
FlagKeys == {hook_ran(hooks[i].key) : i \in 1..Len(hooks)}

\* C34: context isolation and frame.  No step of a run of the hooks changes
\* the caller's data map, the hook list or the slot list, and the data the
\* engine was called with stays as it was until the call returns.  The
\* context of a guard is that data with the hook_ran flags on top: the
\* caller's entries are in it unchanged, the flags are not in the data, and
\* before a hook of this run has completed every flag is "false", whatever
\* completed in an earlier run.
C34_ContextIsolation ==
    [][/\ hooks' = hooks
       /\ slots' = slots
       /\ slot_data' = slot_data
       /\ (pc # "idle" /\ pc' # "idle") => data' = data
       /\ pc' # "idle" =>
            /\ data' = with_reserved_keys(slot_data, project,
                                          [out_dir EXCEPT !.exists = LastCall'.existed])
            /\ DOMAIN data' \cap FlagKeys = {}
       /\ pc' = "guard" =>
            /\ DOMAIN GuardContext' = DOMAIN data' \cup FlagKeys
            /\ \A k \in DOMAIN slot_data \ ReservedKeys : GuardContext'[k] = slot_data[k]
            /\ ran_hooks' = <<>> => \A k \in FlagKeys : GuardContext'[k] = sFalse]_vars

\* the second run of a session stands at the guard of a hook after a hook
\* of this run completed, and a hook completed in the first run
C34_Witness ==
    /\ Len(history) = 2
    /\ pc = "guard"
    /\ ran_hooks # <<>>
    /\ commands[ci].if.some
    /\ slot_data # <<>>
    /\ \E e \in 1..Len(history[1].events) : history[1].events[e].kind = "Completed"

\* the hooks that come after the hook with key k in the second loop of the
\* stream
StreamAfter(k) ==
    {commands[j].key : j \in {j \in 1..Len(commands) :
                                \E i \in 1..(j - 1) : commands[i].key = k}}

\* C35: lazy execution under a consumer that stops early.  The stream takes
\* a step, and so emits an event or spawns a process, only when run_multi
\* polls it; run_multi stops polling at a HookDone(Failed), so that event is
\* the last one, no process is running after it, and no hook that comes
\* later in the stream has an event or a process.
C35_LazyExecution ==
    /\ [](\A i \in 1..Len(events) :
            IsFailed(events[i]) =>
                /\ i = Len(events)
                /\ running = {}
                /\ \A k \in StreamAfter(events[i].key) :
                        StartedOf(k) = {} /\ DoneOf(k) = {} /\ ~WasSpawned(k))
    /\ [][(events' # events \/ spawned' # spawned \/ running' # running) =>
            (cli = "stream" /\ ~LastEventFailed)]_vars

\* run_multi has exited at the Failed result of a hook whose process was
\* spawned, and a hook comes after it in the stream
C35_Witness ==
    /\ cli = "exit1"
    /\ LastEventFailed
    /\ WasSpawned(events[Len(events)].key)
    /\ StreamAfter(events[Len(events)].key) # {}

\* the hook is skipped for its declaration and the data: it is not enabled,
\* or a prerequisite of it is not
StaticallySkipped(h) == ~Hook_is_enabled(h, data) \/ ~AllPrerequisitesEnabled(h.needs)

\* hook b needs hook a, and a ran into its guard being false or into a failure
NeedEndedBadly(b, a) ==
    /\ \E n \in 1..Len(b.needs) : b.needs[n] = a.key
    /\ \E j \in DoneOf(a.key) :
            \/ events[j].kind = "Failed"
            \/ events[j].kind = "Skipped" /\ \E c \in 1..Len(commands) : commands[c].key = a.key

\* the hooks skipped up front are those that the declarations and the data
\* make disabled or unsatisfied, the others are queued, and a queued hook
\* without a guard is spawned in a drained run
DecidedByDeclarations ==
    Constructed =>
        \A i \in 1..Len(hooks) :
            LET h == hooks[i] IN
            IF StaticallySkipped(h)
            THEN /\ \E j \in 1..Len(skipped_hooks) : skipped_hooks[j].hook.key = h.key
                 /\ \A j \in 1..Len(commands) : commands[j].key # h.key
            ELSE /\ \E j \in 1..Len(commands) : commands[j].key = h.key
                 /\ \A j \in 1..Len(skipped_hooks) : skipped_hooks[j].hook.key # h.key
                 /\ (Drained /\ ~h.if.some) => WasSpawned(h.key)

\* C36: needs are decided statically.  Once the stream is constructed the
\* hooks skipped up front are those that the declarations and the data make
\* disabled or unsatisfied, and the others are queued, whatever the hooks
\* that ran ended with and wherever the needed hook is declared: a queued
\* hook without a guard is spawned in a drained run, also when the hook it
\* needs was skipped by its guard or failed.  The decision is taken before
\* the first process is spawned and no later step changes it, the
\* declarations or the data.
C36_StaticNeeds ==
    /\ [](DecidedByDeclarations /\ (spawned # <<>> => Constructed))
    /\ [][Constructed =>
            /\ skipped_hooks' = skipped_hooks
            /\ commands' = commands
            /\ hooks' = hooks /\ slots' = slots /\ data' = data]_vars

\* a drained run spawned a hook whose needed hook, declared after it, was
\* skipped by its guard or failed
C36_Witness ==
    /\ Drained
    /\ \E b, a \in 1..Len(hooks) :
            /\ b < a
            /\ NeedEndedBadly(hooks[b], hooks[a])
            /\ WasSpawned(hooks[b].key)

\* a drained run spawned a hook after the hook it needs failed
C36_WitnessFailed ==
    /\ Drained
    /\ \E b, a \in 1..Len(hooks) :
            /\ a < b
            /\ NeedEndedBadly(hooks[b], hooks[a])
            /\ \E j \in DoneOf(hooks[a].key) : events[j].kind = "Failed"
            /\ WasSpawned(hooks[b].key)

\* a step of run_multi that came before the hooks returned an Err
GenerationFailed ==
    \E k \in 1..Len(history) : history[k].ret.kind \in {"CopyError", "TemplateError"}

EnabledAsked == fn_in.fn = "Hook_is_enabled" /\ fn_out.done

\* C38: for an optional hook whose key has an entry in the data,
\* Hook::is_enabled is true exactly when the entry is the text "true"; any
\* other entry ("True", "1", "yes", a padded " true", the empty text)
\* disables the hook whatever optional.default is.  The default is what
\* is_enabled returns when the data holds no entry for the key, and for
\* no other data.
C38_OverrideParsing ==
    (EnabledAsked /\ hooks[1].optional.some) =>
        LET h == hooks[1]
            entry == get(fn_in.context, h.key)
        IN  /\ entry.some => (fn_out.val <=> entry.val = sTrue)
            /\ ~entry.some => (fn_out.val <=> h.optional.default)

\* is_enabled returned false for a hook with default true whose entry is "True"
C38_Witness ==
    /\ EnabledAsked
    /\ hooks[1].optional = SomeOpt(TRUE)
    /\ get(fn_in.context, hooks[1].key) = [some |-> TRUE, val |-> sTrueCap]
    /\ ~fn_out.val

\* is_enabled returned true for a hook with default false whose entry is "true"
C38_WitnessTrue ==
    /\ EnabledAsked
    /\ hooks[1].optional = SomeOpt(FALSE)
    /\ get(fn_in.context, hooks[1].key) = [some |-> TRUE, val |-> sTrue]
    /\ fn_out.val

\* the commands of the hooks were rendered on their own
CommandsRendered == fn_in.fn = "Templated_of" /\ fn_out.done

\* token t of hook h renders against the context of the call
TokenRenders(h, t) == one_off(h.command[t], fn_in.context).ok

C39_WitnessFailure ==
    /\ CommandsRendered
    /\ ~fn_out.ok
    /\ fn_out.key = HookKeys[2]
    /\ fn_out.rendered = <<Len(hooks[1].command), 1>>
    /\ Len(hooks[2].command) = 2
====
